---- MODULE Spec2Model ----
(***************************************************************************)
(* Valuation engine of the drug-valuation platform: the mechanism bonus,   *)
(* the phase tables, the royalty curve, the sales ramp and the discounted  *)
(* cash-flow integrators, as the page (src/pages/index.tsx) and its        *)
(* libraries (cashflow and royalty helpers) compute them.                  *)
(*                                                                         *)
(* Numbers.  A JavaScript number is modelled as an exact rational <<n,d>>  *)
(* in lowest terms with d > 0, so 0.10 is <<1,10>> and 7/3 is <<7,3>>.     *)
(* Rounding of IEEE doubles, NaN and Infinity are outside the model.       *)
(***************************************************************************)
EXTENDS Integers, Sequences, FiniteSets, TLC

VARIABLES
    \* page state: the eight mechanistic inputs and the phase (useState hooks)
    potency, selectivity, halfLife, molecularWeight, logP,
    bioavailability, targetValidation, targetNovelty, phase,
    \* page values derived at each render
    mechanismBonus, ptrs,
    \* a call of a curve function: its arguments and what it returned
    curveArgs, curveRet,
    \* a call of the cash-flow integrators: DcfInputs and the two results
    \* (ownerPV and licensorPV are also the page's two PV memos)
    i, ownerPV, licensorPV,
    \* page state: role, the commercial and the licensing inputs (useState hooks)
    role, peakSales, launchYear, loeYear, discountRate, taxRate, cogs,
    commercialSpend, workingCapital, royaltyMin, royaltyMax, royaltyRampYears,
    \* the calendar year the render reads from the clock
    currentYear,
    \* page values derived at each render
    devCostPV, rnpv, roi, avgRoyalty,
    \* page state no derived value reads: the toast, the share link, the
    \* sponsor of the trial looked up
    toastMsg, shareLink, trialSponsor,
    \* the number of events the page has handled
    events,
    \* page state: the indication (a useState hook, part of getInputs)
    indication,
    \* the timers notify has started and that have not fired yet, oldest
    \* first, each named by the event whose notify started it; and the event
    \* whose notify set the message the toast holds
    timers, toastBy,
    \* the valuations the save route has stored, and the phase
    \* label of the last answer of the trial route
    valuations, trialData,
    \* a call of computeLoeYearFromOrangeBook: its records and what it returned
    orangeBook, loeRet,
    \* the in-memory store: its two maps, and every document createValuation
    \* has returned, in the order of the calls
    memById, memBySlug, created,
    \* the valuation table of the database, and a call of the id-or-slug
    \* lookup route: its query and its answer
    dbValuations, routeRet

mechVars == <<potency, selectivity, halfLife, molecularWeight, logP,
              bioavailability, targetValidation, targetNovelty, phase,
              mechanismBonus, ptrs>>
curveVars == <<curveArgs, curveRet>>
dcfVars == <<i, ownerPV, licensorPV>>
finVars == <<role, peakSales, launchYear, loeYear, discountRate, taxRate, cogs,
             commercialSpend, workingCapital, royaltyMin, royaltyMax,
             royaltyRampYears, currentYear>>
outVars == <<devCostPV, rnpv, roi, avgRoyalty>>
auxVars == <<toastMsg, shareLink, trialSponsor, events>>
sessionVars == <<indication, timers, toastBy, valuations, trialData>>
pageVars == <<finVars, outVars, auxVars, sessionVars>>
loeVars == <<orangeBook, loeRet>>
storeVars == <<memById, memBySlug, created>>
dbVars == <<dbValuations, routeRet>>
svcVars == <<storeVars, dbVars>>
vars == <<mechVars, curveVars, dcfVars, pageVars, loeVars, svcVars>>

\* "not computed yet": the place of a number that no call has produced so far
None == <<>>

----------------------------------------------------------------------------
(* Exact arithmetic on JavaScript numbers *)

Abs(n) == IF n < 0 THEN -n ELSE n

RECURSIVE Gcd(_, _)
Gcd(a, b) == IF b = 0 THEN a ELSE Gcd(b, a % b)

\* the number n/d in lowest terms, d # 0
Rat(n, d) ==
    LET g == Gcd(Abs(n), Abs(d))
        s == IF d < 0 THEN -1 ELSE 1
    IN  <<(s * n) \div g, (s * d) \div g>>

R(n) == <<n, 1>>
Zero == R(0)
One == R(1)

Add(a, b) == Rat(a[1] * b[2] + b[1] * a[2], a[2] * b[2])
Sub(a, b) == Rat(a[1] * b[2] - b[1] * a[2], a[2] * b[2])
Mul(a, b) == Rat(a[1] * b[1], a[2] * b[2])
\* a / b, b # 0
Div(a, b) == Rat(a[1] * b[2], a[2] * b[1])
Lt(a, b) == a[1] * b[2] < b[1] * a[2]
Le(a, b) == a[1] * b[2] <= b[1] * a[2]
Gt(a, b) == Lt(b, a)
Ge(a, b) == Le(b, a)

\* Math.pow(a, k) for an integer exponent k (a # 0 when k < 0)
RECURSIVE Pow(_, _)
Pow(a, k) ==
    IF k = 0 THEN One
    ELSE IF k < 0 THEN Div(One, Pow(a, -k))
    ELSE Mul(a, Pow(a, k - 1))

----------------------------------------------------------------------------
(* Phase tables *)

PhaseKeys == {"Preclinical", "Phase I", "Phase II", "Phase III", "NDA", "Approved"}

devCosts ==
    [p \in PhaseKeys |->
        CASE p = "Preclinical" -> R(200)
          [] p = "Phase I"     -> R(50)
          [] p = "Phase II"    -> R(100)
          [] p = "Phase III"   -> R(200)
          [] p = "NDA"         -> R(20)
          [] p = "Approved"    -> R(0)]

baseProbabilities ==
    [p \in PhaseKeys |->
        CASE p = "Preclinical" -> Rat(12, 100)
          [] p = "Phase I"     -> Rat(32, 100)
          [] p = "Phase II"    -> Rat(14, 100)
          [] p = "Phase III"   -> Rat(40, 100)
          [] p = "NDA"         -> Rat(85, 100)
          [] p = "Approved"    -> R(1)]

\* faulty variant: an unknown key falls back to the Preclinical row
probability_FallbackPreclinical(ph) ==
    IF ph \in DOMAIN baseProbabilities THEN baseProbabilities[ph]
    ELSE baseProbabilities["Preclinical"]

\* baseProbabilities[phase] ?? 0
probability(ph) == IF ph \in DOMAIN baseProbabilities THEN baseProbabilities[ph] ELSE Zero

----------------------------------------------------------------------------
(* Mechanism bonus: the eight adjustments in the order the page applies them.
   The running bonus b is counted in hundredths: b = 110 is the number 1.10,
   so "b += 0.10" is b + 10 and "b -= 0.05" is b - 5. *)

AdjPotency(b, v) ==
    IF Lt(v, R(10)) THEN b + 10 ELSE IF Gt(v, R(100)) THEN b - 10 ELSE b

AdjSelectivity(b, v) ==
    IF Gt(v, R(30)) THEN b + 10 ELSE IF Lt(v, R(5)) THEN b - 10 ELSE b

AdjHalfLife(b, v) ==
    IF Gt(v, R(24)) THEN b - 5 ELSE IF Lt(v, R(2)) THEN b - 5 ELSE b

AdjMolecularWeight(b, v) ==
    IF Gt(v, R(500)) THEN b - 5 ELSE IF Lt(v, R(200)) THEN b + 5 ELSE b

\* faulty variant: the two branches of the logP adjustment swapped
AdjLogP_Swapped(b, v) ==
    IF Ge(v, R(1)) /\ Le(v, R(3)) THEN b - 5 ELSE b + 10

AdjLogP(b, v) ==
    IF Ge(v, R(1)) /\ Le(v, R(3)) THEN b + 10 ELSE b - 5

\* faulty variant: the upper bioavailability threshold made inclusive
AdjBioavailability_Inclusive(b, v) ==
    IF Ge(v, <<1, 2>>) THEN b + 10 ELSE IF Lt(v, <<1, 5>>) THEN b - 10 ELSE b

AdjBioavailability(b, v) ==
    IF Gt(v, <<1, 2>>) THEN b + 10 ELSE IF Lt(v, <<1, 5>>) THEN b - 10 ELSE b

\* faulty variant: a validated target rewarded with 0.30
AdjTargetValidation_Plus30(b, v) ==
    IF Gt(v, <<7, 10>>) THEN b + 30 ELSE IF Lt(v, <<3, 10>>) THEN b - 10 ELSE b

AdjTargetValidation(b, v) ==
    IF Gt(v, <<7, 10>>) THEN b + 20 ELSE IF Lt(v, <<3, 10>>) THEN b - 10 ELSE b

AdjTargetNovelty(b, v) ==
    IF Gt(v, <<7, 10>>) THEN b - 10 ELSE IF Lt(v, <<3, 10>>) THEN b + 10 ELSE b

\* the k-th statement of the memo body applied to the running bonus b;
\* in is the record of the eight inputs
Adjust(k, b, in) ==
    CASE k = 1 -> AdjPotency(b, in.potency)
      [] k = 2 -> AdjSelectivity(b, in.selectivity)
      [] k = 3 -> AdjHalfLife(b, in.halfLife)
      [] k = 4 -> AdjMolecularWeight(b, in.molecularWeight)
      [] k = 5 -> AdjLogP(b, in.logP)
      [] k = 6 -> AdjBioavailability(b, in.bioavailability)
      [] k = 7 -> AdjTargetValidation(b, in.targetValidation)
      [] k = 8 -> AdjTargetNovelty(b, in.targetNovelty)

\* the statements named by order, applied one after the other starting from b
RECURSIVE ApplyAdjustments(_, _, _)
ApplyAdjustments(order, b, in) ==
    IF order = <<>> THEN b
    ELSE ApplyAdjustments(Tail(order), Adjust(Head(order), b, in), in)

SourceOrder == <<1, 2, 3, 4, 5, 6, 7, 8>>

\* faulty variant: the lower clamp forgotten
ClampBonus_NoFloor(b) == IF b > 200 THEN 200 ELSE b

\* Math.min(2.0, Math.max(0.5, b)), b in hundredths
ClampBonus(b) ==
    LET lo == IF b < 50 THEN 50 ELSE b
    IN  IF lo > 200 THEN 200 ELSE lo

\* the value of the mechanismBonus memo for the inputs in, as a number
MechanismBonusOf(in) == Rat(ClampBonus(ApplyAdjustments(SourceOrder, 100, in)), 100)

\* faulty variant: the product capped at 1 like a probability
PtrsOf_CappedAtOne(ph, bonus) ==
    LET p == Mul(probability(ph), bonus) IN IF Gt(p, One) THEN One ELSE p

\* ptrs = probability * mechanismBonus
PtrsOf(ph, bonus) == Mul(probability(ph), bonus)

----------------------------------------------------------------------------
(* Royalty curve *)

\* faulty variant: the plateau returns min instead of max
royaltyAtYear_PlateauMin(y, launch, loe, min, max, ramp) ==
    IF y < launch \/ y >= loe THEN Zero
    ELSE IF y - launch >= ramp THEN min
    ELSE Add(min, Div(Mul(Sub(max, min), R(y - launch)), R(ramp)))

\* faulty variant: the elapsed years left out of the interpolation
royaltyAtYear_NoElapsed(y, launch, loe, min, max, ramp) ==
    IF y < launch \/ y >= loe THEN Zero
    ELSE IF y - launch >= ramp THEN max
    ELSE Add(min, Div(Sub(max, min), R(ramp)))

\* faulty variant: a non-positive ramp read as no ramp-up at all, staying at min
royaltyAtYear_NoRampStaysMin(y, launch, loe, min, max, ramp) ==
    IF y < launch \/ y >= loe THEN Zero
    ELSE IF ramp <= 0 THEN min
    ELSE IF y - launch >= ramp THEN max
    ELSE Add(min, Div(Mul(Sub(max, min), R(y - launch)), R(ramp)))

royaltyAtYear(y, launch, loe, min, max, ramp) ==
    IF y < launch \/ y >= loe THEN Zero
    ELSE IF y - launch >= ramp THEN max
    ELSE Add(min, Div(Mul(Sub(max, min), R(y - launch)), R(ramp)))

\* the for loop of averageRoyalty from year y on, with the running sum and count
RECURSIVE averageRoyaltyLoop(_, _, _, _, _, _, _, _)
averageRoyaltyLoop(y, sum, n, launch, loe, min, max, ramp) ==
    IF y < loe
    THEN averageRoyaltyLoop(y + 1, Add(sum, royaltyAtYear(y, launch, loe, min, max, ramp)),
                            n + 1, launch, loe, min, max, ramp)
    ELSE [sum |-> sum, n |-> n]

\* faulty variant: the loop runs up to and including loe
RECURSIVE averageRoyaltyLoop_Inclusive(_, _, _, _, _, _, _, _)
averageRoyaltyLoop_Inclusive(y, sum, n, launch, loe, min, max, ramp) ==
    IF y <= loe
    THEN averageRoyaltyLoop_Inclusive(y + 1,
                            Add(sum, royaltyAtYear(y, launch, loe, min, max, ramp)),
                            n + 1, launch, loe, min, max, ramp)
    ELSE [sum |-> sum, n |-> n]

averageRoyalty_Inclusive(launch, loe, min, max, ramp) ==
    LET r == averageRoyaltyLoop_Inclusive(launch, Zero, 0, launch, loe, min, max, ramp)
    IN  IF r.n # 0 THEN Div(r.sum, R(r.n)) ELSE Zero

averageRoyalty(launch, loe, min, max, ramp) ==
    LET r == averageRoyaltyLoop(launch, Zero, 0, launch, loe, min, max, ramp)
    IN  IF r.n # 0 THEN Div(r.sum, R(r.n)) ELSE Zero

----------------------------------------------------------------------------
(* Cash flows *)

\* const ramp = 4 in salesAtYear
SalesRamp == 4

\* faulty variant: the LOE year itself still sells
salesAtYear_LoeIncluded(year, launch, loe, peak) ==
    IF year < launch \/ year > loe THEN Zero
    ELSE LET t == year - launch
         IN  IF t <= SalesRamp THEN Mul(peak, Div(R(t), R(SalesRamp))) ELSE peak

\* faulty variant: a five-year sales ramp
salesAtYear_Ramp5(year, launch, loe, peak) ==
    IF year < launch \/ year >= loe THEN Zero
    ELSE LET t == year - launch
         IN  IF t <= 5 THEN Mul(peak, Div(R(t), R(5))) ELSE peak

\* faulty variant: the launch year counted as the first year of the ramp
salesAtYear_RampFromOne(year, launch, loe, peak) ==
    IF year < launch \/ year >= loe THEN Zero
    ELSE LET t == year - launch + 1
         IN  IF t <= SalesRamp THEN Mul(peak, Div(R(t), R(SalesRamp))) ELSE peak

salesAtYear(year, launch, loe, peak) ==
    IF year < launch \/ year >= loe THEN Zero
    ELSE LET t == year - launch
         IN  IF t <= SalesRamp THEN Mul(peak, Div(R(t), R(SalesRamp))) ELSE peak

\* the optional royaltyPctAt of DcfInputs: absent, or the closure the page
\* builds over royaltyAtYear with its royaltyMin, royaltyMax, royaltyRampYears
NoRoyaltyFn == [present |-> FALSE, min |-> Zero, max |-> Zero, ramp |-> 0]
RoyaltyFn(min, max, ramp) == [present |-> TRUE, min |-> min, max |-> max, ramp |-> ramp]

\* in.royaltyPctAt(y)
royaltyPctAt(in, y) ==
    royaltyAtYear(y, in.launchYear, in.loeYear,
                  in.royaltyPctAt.min, in.royaltyPctAt.max, in.royaltyPctAt.ramp)

\* faulty variant: discounted from the launch year instead of the current year
Discounted_FromLaunch(cf, in, y) == Div(cf, Pow(Add(One, in.discountRate), y - in.launchYear))

\* cf / Math.pow(1 + i.discountRate, y - i.currentYear)
Discounted(cf, in, y) == Div(cf, Pow(Add(One, in.discountRate), y - in.currentYear))

\* the for loop of pvOwner from year y on, with the running pv
RECURSIVE pvOwnerLoop(_, _, _, _)
pvOwnerLoop(in, net, y, pv) ==
    IF y < in.loeYear
    THEN LET cf == Mul(Mul(salesAtYear(y, in.launchYear, in.loeYear, in.peakSales), net),
                       Sub(One, in.taxRate))
         IN  pvOwnerLoop(in, net, y + 1, Add(pv, Discounted(cf, in, y)))
    ELSE pv

\* faulty variant: loeYear ignored, a fixed five-year horizon after launch
pvOwner_FixedHorizon(in) ==
    LET net == Sub(Sub(Sub(One, in.cogs), in.commercialSpend), in.workingCapital)
    IN  pvOwnerLoop([in EXCEPT !.loeYear = in.launchYear + 5], net, in.launchYear, Zero)

\* faulty variant: the net margin with its operands the wrong way round
pvOwner_MarginSign(in) ==
    LET net == Sub(Add(Add(in.cogs, in.commercialSpend), in.workingCapital), One)
    IN  pvOwnerLoop(in, net, in.launchYear, Zero)

pvOwner(in) ==
    LET net == Sub(Sub(Sub(One, in.cogs), in.commercialSpend), in.workingCapital)
    IN  pvOwnerLoop(in, net, in.launchYear, Zero)

\* the for loop of pvLicensor from year y on, with the running pv
RECURSIVE pvLicensorLoop(_, _, _)
pvLicensorLoop(in, y, pv) ==
    IF y < in.loeYear
    THEN LET cf == Mul(Mul(salesAtYear(y, in.launchYear, in.loeYear, in.peakSales),
                           Div(royaltyPctAt(in, y), R(100))),
                       Sub(One, in.taxRate))
         IN  pvLicensorLoop(in, y + 1, Add(pv, Discounted(cf, in, y)))
    ELSE pv

\* faulty variant: the royalty income reduced by the owner's net margin
pvLicensor_NetMargin(in) ==
    IF ~in.royaltyPctAt.present THEN Zero
    ELSE Mul(Sub(Sub(Sub(One, in.cogs), in.commercialSpend), in.workingCapital),
             pvLicensorLoop(in, in.launchYear, Zero))

\* faulty variant: a missing royalty function replaced by a flat 5% royalty
pvLicensor_FlatRoyalty(in) ==
    IF ~in.royaltyPctAt.present
    THEN pvLicensorLoop([in EXCEPT !.royaltyPctAt = RoyaltyFn(R(5), R(5), 0)],
                        in.launchYear, Zero)
    ELSE pvLicensorLoop(in, in.launchYear, Zero)

pvLicensor(in) ==
    IF ~in.royaltyPctAt.present THEN Zero
    ELSE pvLicensorLoop(in, in.launchYear, Zero)

----------------------------------------------------------------------------
(* The LOE resolver computeLoeYearFromOrangeBook *)

\* the largest number of records in a call
MaxRecords == 2

\* an optional date string of an OrangeBookRecord: absent (undefined), the
\* empty string, text that is no date ("N/A"), or an ISO date YYYY-MM-DD
\* given by its year and month (the day is 01)
AbsentDate == [kind |-> "absent", year |-> 0, month |-> 0]
EmptyDate == [kind |-> "empty", year |-> 0, month |-> 0]
TextDate == [kind |-> "text", year |-> 0, month |-> 0]
IsoDate(y, m) == [kind |-> "iso", year |-> y, month |-> m]

\* new Date(d).getUTCFullYear(): the year of a date-only ISO string, which is
\* read as UTC midnight, and NaN for an Invalid Date (text, or a month
\* outside 01..12)
NotANumber == [nan |-> TRUE, y |-> 0]
getUTCFullYear(d) ==
    IF d.kind = "iso" /\ d.month \in 1..12 THEN [nan |-> FALSE, y |-> d.year]
    ELSE NotANumber

\* the body of the inner loop for one date d, with the running max
LoeDateStep(max, d) ==
    IF d.kind = "absent" \/ d.kind = "empty" THEN max
    ELSE LET y == getUTCFullYear(d)
         IN  IF ~y.nan /\ y.y > max THEN y.y ELSE max

\* the outer loop from record k on, with the running max
RECURSIVE LoeRecordLoop(_, _, _)
LoeRecordLoop(recs, k, max) ==
    IF k > Len(recs) THEN max
    ELSE LoeRecordLoop(recs, k + 1,
                       LoeDateStep(LoeDateStep(max, recs[k].patentExpiry),
                                   recs[k].exclusivityExpiry))

\* the number | null a call returns
NullYear == [null |-> TRUE, year |-> 0]
YearOf(y) == [null |-> FALSE, year |-> y]

computeLoeYearFromOrangeBook(recs) ==
    IF Len(recs) = 0 THEN NullYear
    ELSE LET max == LoeRecordLoop(recs, 1, 0)
         IN  IF max # 0 THEN YearOf(max) ELSE NullYear

\* the date strings tried: every kind, an ISO date of the year 0000, two of
\* the 2030s and one with month 13
DateStrings ==
    {AbsentDate, EmptyDate, TextDate, IsoDate(0, 6), IsoDate(2030, 6),
     IsoDate(2035, 6), IsoDate(2040, 13)}
OrangeBookRecords == [patentExpiry : DateStrings, exclusivityExpiry : DateStrings]
RecordLists == UNION {[1..n -> OrangeBookRecords] : n \in 0..MaxRecords}

LoeIdle == orangeBook = None /\ loeRet = None

\* the result slot before the call
NoLoeCall == [called |-> FALSE, ret |-> NullYear]

LoeInit ==
    /\ orangeBook \in RecordLists
    /\ loeRet = NoLoeCall

CallComputeLoeYear ==
    /\ ~loeRet.called
    /\ loeRet' = [called |-> TRUE, ret |-> computeLoeYearFromOrangeBook(orangeBook)]
    /\ UNCHANGED <<orangeBook, mechVars, curveVars, dcfVars, pageVars, svcVars>>

----------------------------------------------------------------------------
(* The in-memory store of valuations (lib/store) *)

\* bound of the number of createValuation calls
MaxCreated == 3

\* what randomId(12) and randomId(8) can return: strings of different
\* lengths, so an id is never a slug; each call draws any string of its space
IdSpace == {"aaaaaaaaaaaa", "Zk3x9q2mB7pQ"}
SlugSpace == {"aaaaaaaa", "Zk3x9q2m"}

\* the payloads of createValuation
Payloads == {"valuation A", "valuation B"}

\* absent from a Map: get returns undefined, which the lookups turn into null
NullDoc == [null |-> TRUE]

StoreIdle == memById = <<>> /\ memBySlug = <<>> /\ created = <<>>

\* Map.prototype.set: the entry of the key is added or replaced
MapSet(map, k, doc) == (k :> doc) @@ map

\* Map.prototype.get(k) || null
MapGet(map, k) == IF k \in DOMAIN map THEN map[k] ELSE NullDoc

\* createValuation(v): a document with a fresh random id and slug, entered
\* in both maps
createValuation ==
    /\ Len(created) < MaxCreated
    /\ \E id \in IdSpace, slug \in SlugSpace, v \in Payloads :
         LET doc == [id |-> id, shareSlug |-> slug,
                     createdAt |-> Len(created) + 1, inputs |-> v]
         IN /\ memById' = MapSet(memById, doc.id, doc)
            /\ memBySlug' = MapSet(memBySlug, doc.shareSlug, doc)
            /\ created' = Append(created, doc)
    /\ UNCHANGED <<mechVars, curveVars, dcfVars, pageVars, loeVars, dbVars>>

\* getValuationByIdOrSlug(k) = memById.get(k) || memBySlug.get(k) || null
getValuationByIdOrSlug(k) ==
    IF k \in DOMAIN memById THEN memById[k] ELSE MapGet(memBySlug, k)

\* getValuationBySlug(s) = memBySlug.get(s) || null
getValuationBySlug(slug) == MapGet(memBySlug, slug)

----------------------------------------------------------------------------
(* The database-backed routes: POST /api/valuations and the id-or-slug lookup *)

\* bound of the number of rows of the valuation table
MaxRows == 3

\* slugs generateSlug can return: up to eight base-36 digits (0-9, a-z)
GeneratedSlugs == {"k3x9q2mz", "12345678", "00000002", "7fr0zt1a"}

\* what the lookup route is queried with: a slug, or the decimal id of a row
Queries == GeneratedSlugs \cup {"1", "2", "3", "zzzzzzzz"}

Digits == "0123456789"

IsDigit(c) == \E k \in 1..10 : SubSeq(Digits, k, k) = c
DigitValue(c) == (CHOOSE k \in 1..10 : SubSeq(Digits, k, k) = c) - 1

RECURSIVE DecimalValue(_)
DecimalValue(s) ==
    IF s = "" THEN 0
    ELSE 10 * DecimalValue(SubSeq(s, 1, Len(s) - 1)) + DigitValue(SubSeq(s, Len(s), Len(s)))

\* Number(id) for a non-empty string of base-36 digits without a radix prefix
\* or an exponent: the decimal value of a string of digits, NaN otherwise
Number(s) ==
    IF \A k \in 1..Len(s) : IsDigit(SubSeq(s, k, k))
    THEN [nan |-> FALSE, y |-> DecimalValue(s)]
    ELSE NotANumber

isNaN(x) == x.nan

\* the answer slot before a call of the route
NoRouteCall == [query |-> "", status |-> 0, body |-> NullDoc]

DbIdle == dbValuations = <<>> /\ routeRet = NoRouteCall

SvcIdle == StoreIdle /\ DbIdle

\* prisma.valuation.findUnique({ where: { id } }) and ({ where: { shareSlug } })
FindById(id) == {k \in 1..Len(dbValuations) : dbValuations[k].id = id}
FindBySlug(slug) == {k \in 1..Len(dbValuations) : dbValuations[k].shareSlug = slug}

\* POST /api/valuations: a row with the next id and a generated slug; the
\* create fails on a slug the table already holds (shareSlug is unique)
postValuation ==
    /\ Len(dbValuations) < MaxRows
    /\ \E slug \in GeneratedSlugs, v \in Payloads :
         dbValuations' =
            IF FindBySlug(slug) = {}
            THEN Append(dbValuations, [id |-> Len(dbValuations) + 1,
                                       shareSlug |-> slug, inputs |-> v])
            ELSE dbValuations
    /\ routeRet' = NoRouteCall
    /\ UNCHANGED <<mechVars, curveVars, dcfVars, pageVars, loeVars, storeVars>>

\* the rows the lookup route finds for the query: by id when Number(id) is
\* not NaN, by shareSlug otherwise
LookupRows(id) ==
    IF ~isNaN(Number(id)) THEN FindById(Number(id).y) ELSE FindBySlug(id)

\* GET of the id-or-slug route: 404 when no row is found, 200 with the row
getValuationRoute ==
    /\ \E id \in Queries :
         LET found == LookupRows(id) IN
         routeRet' = IF found = {}
                     THEN [query |-> id, status |-> 404, body |-> NullDoc]
                     ELSE [query |-> id, status |-> 200,
                           body |-> dbValuations[CHOOSE k \in found : TRUE]]
    /\ UNCHANGED <<dbValuations, mechVars, curveVars, dcfVars, pageVars, loeVars,
                   storeVars>>

----------------------------------------------------------------------------
(* The page's mechanistic state *)

\* bounds of the years and of the royalty ramp
FirstYear == 2030
MaxHorizon == 6
MaxRamp == 3

MechInputs ==
    [potency |-> potency, selectivity |-> selectivity, halfLife |-> halfLife,
     molecularWeight |-> molecularWeight, logP |-> logP,
     bioavailability |-> bioavailability, targetValidation |-> targetValidation,
     targetNovelty |-> targetNovelty]

\* the useState defaults of the page
DefaultMechInputs ==
    [potency |-> R(50), selectivity |-> R(10), halfLife |-> R(12),
     molecularWeight |-> R(400), logP |-> R(2),
     bioavailability |-> <<1, 2>>, targetValidation |-> <<1, 2>>,
     targetNovelty |-> <<1, 2>>]

\* values typed into the number fields: the default and a value below, on and
\* above every threshold, negative and out-of-range values included
PotencyValues == {R(-5), R(10), R(50), R(100), R(101)}
SelectivityValues == {R(-4), R(5), R(10), R(30), R(31)}
HalfLifeValues == {R(-1), R(2), R(12), R(24), R(25)}
MolecularWeightValues == {R(-10), R(200), R(400), R(500), R(501)}
LogPValues == {R(-1), R(1), R(2), R(3), <<31, 10>>}
BioavailabilityValues == {<<-1, 10>>, <<1, 5>>, <<1, 2>>, <<3, 2>>}
TargetValidationValues == {<<-1, 10>>, <<3, 10>>, <<1, 2>>, <<7, 10>>, <<4, 5>>}
TargetNoveltyValues == {<<-1, 10>>, <<3, 10>>, <<1, 2>>, <<7, 10>>, <<4, 5>>}

\* the page holds any values the user typed; nothing is derived yet
MechInit ==
    /\ potency \in PotencyValues
    /\ selectivity \in SelectivityValues
    /\ halfLife \in HalfLifeValues
    /\ molecularWeight \in MolecularWeightValues
    /\ logP \in LogPValues
    /\ bioavailability \in BioavailabilityValues
    /\ targetValidation \in TargetValidationValues
    /\ targetNovelty \in TargetNoveltyValues
    /\ phase = "Preclinical"
    /\ mechanismBonus = None
    /\ ptrs = None

\* a render of the page: the memo and ptrs are computed from the state
Render ==
    /\ mechanismBonus = None
    /\ mechanismBonus' = MechanismBonusOf(MechInputs)
    /\ ptrs' = PtrsOf(phase, mechanismBonus')
    /\ UNCHANGED <<potency, selectivity, halfLife, molecularWeight, logP,
                   bioavailability, targetValidation, targetNovelty, phase>>
    /\ UNCHANGED <<curveVars, dcfVars, pageVars, loeVars, svcVars>>

\* no curve call, no cash-flow call and no LOE call in progress
CurveIdle == curveArgs = None /\ curveRet = None
DcfIdle == i = None /\ ownerPV = None /\ licensorPV = None
MechIdle ==
    /\ potency = DefaultMechInputs.potency
    /\ selectivity = DefaultMechInputs.selectivity
    /\ halfLife = DefaultMechInputs.halfLife
    /\ molecularWeight = DefaultMechInputs.molecularWeight
    /\ logP = DefaultMechInputs.logP
    /\ bioavailability = DefaultMechInputs.bioavailability
    /\ targetValidation = DefaultMechInputs.targetValidation
    /\ targetNovelty = DefaultMechInputs.targetNovelty
    /\ phase = "Preclinical"
    /\ mechanismBonus = None
    /\ ptrs = None

\* the useState defaults of the commercial and licensing inputs
DefaultFinInputs ==
    [role |-> "OWNER", peakSales |-> R(500), discountRate |-> <<1, 10>>,
     taxRate |-> <<21, 100>>, cogs |-> <<1, 5>>, commercialSpend |-> <<3, 10>>,
     workingCapital |-> <<1, 20>>, royaltyMin |-> R(5), royaltyMax |-> R(12),
     royaltyRampYears |-> 3]

\* no toast, no share link, no trial looked up, no event handled
AuxIdle ==
    /\ toastMsg = "null" /\ shareLink = "null" /\ trialSponsor = "null" /\ events = 0
    /\ indication = "Oncology"
    /\ timers = <<>> /\ toastBy = 0
    /\ valuations = <<>> /\ trialData = ""

\* the commercial part of the page at its defaults, nothing derived yet
PageIdle ==
    /\ role = DefaultFinInputs.role
    /\ peakSales = DefaultFinInputs.peakSales
    /\ currentYear = FirstYear - 5
    /\ launchYear = currentYear + 5
    /\ loeYear = launchYear + 10
    /\ discountRate = DefaultFinInputs.discountRate
    /\ taxRate = DefaultFinInputs.taxRate
    /\ cogs = DefaultFinInputs.cogs
    /\ commercialSpend = DefaultFinInputs.commercialSpend
    /\ workingCapital = DefaultFinInputs.workingCapital
    /\ royaltyMin = DefaultFinInputs.royaltyMin
    /\ royaltyMax = DefaultFinInputs.royaltyMax
    /\ royaltyRampYears = DefaultFinInputs.royaltyRampYears
    /\ devCostPV = None /\ rnpv = None /\ roi = None /\ avgRoyalty = None
    /\ AuxIdle

InitMech == MechInit /\ CurveIdle /\ DcfIdle /\ PageIdle /\ LoeIdle /\ SvcIdle

NextMech == Render

SpecMech == InitMech /\ [][NextMech]_vars

----------------------------------------------------------------------------
(* Calls of the curve functions royaltyAtYear, averageRoyalty, salesAtYear *)

LaunchYears == {FirstYear, FirstYear + 1}
LoeYears == (FirstYear - 1)..(FirstYear + MaxHorizon)
ProbeYears == (FirstYear - 1)..(FirstYear + MaxHorizon + 1)
RampYears == (-1)..MaxRamp
RoyaltyMins == {R(0), R(5), R(12)}
RoyaltyMaxs == {R(5), R(12)}
PeakSalesValues == {R(0), R(100), R(500)}

\* the result slot before any call
NoCall == [fn |-> "none", year |-> 0, val |-> Zero]

CurveInit ==
    /\ curveArgs \in [launch : LaunchYears, loe : LoeYears, min : RoyaltyMins,
                       max : RoyaltyMaxs, ramp : RampYears, peak : PeakSalesValues]
    /\ curveRet = NoCall

CallRoyaltyAtYear ==
    /\ \E y \in ProbeYears :
         curveRet' = [fn |-> "royaltyAtYear", year |-> y,
                      val |-> royaltyAtYear(y, curveArgs.launch, curveArgs.loe,
                                            curveArgs.min, curveArgs.max, curveArgs.ramp)]
    /\ UNCHANGED <<curveArgs, mechVars, dcfVars, pageVars, loeVars, svcVars>>

CallAverageRoyalty ==
    /\ curveRet' = [fn |-> "averageRoyalty", year |-> 0,
                    val |-> averageRoyalty(curveArgs.launch, curveArgs.loe,
                                           curveArgs.min, curveArgs.max, curveArgs.ramp)]
    /\ UNCHANGED <<curveArgs, mechVars, dcfVars, pageVars, loeVars, svcVars>>

CallSalesAtYear ==
    /\ \E y \in ProbeYears :
         curveRet' = [fn |-> "salesAtYear", year |-> y,
                      val |-> salesAtYear(y, curveArgs.launch, curveArgs.loe, curveArgs.peak)]
    /\ UNCHANGED <<curveArgs, mechVars, dcfVars, pageVars, loeVars, svcVars>>

InitCurves == CurveInit /\ MechIdle /\ DcfIdle /\ PageIdle /\ LoeIdle /\ SvcIdle

NextCurves ==
    \/ CallRoyaltyAtYear
    \/ CallAverageRoyalty
    \/ CallSalesAtYear

SpecCurves == InitCurves /\ [][NextCurves]_vars

----------------------------------------------------------------------------
(* Calls of the cash-flow integrators pvOwner and pvLicensor *)

CurrentYears == {FirstYear, FirstYear + 2}
DiscountRates == {R(0), <<1, 2>>, R(1)}
TaxRates == {R(0), <<1, 4>>, R(1)}
CogsValues == {R(0), R(1)}
CommercialSpendValues == {R(0), <<1, 2>>}
WorkingCapitalValues == {R(0), <<1, 2>>}
RoyaltyFns == {NoRoyaltyFn, RoyaltyFn(R(5), R(12), 3), RoyaltyFn(R(0), R(100), 0)}

DcfInit ==
    /\ i \in [currentYear : CurrentYears, launchYear : LaunchYears, loeYear : LoeYears,
               discountRate : DiscountRates, taxRate : TaxRates,
               peakSales : PeakSalesValues, cogs : CogsValues,
               commercialSpend : CommercialSpendValues,
               workingCapital : WorkingCapitalValues, royaltyPctAt : RoyaltyFns]
    /\ ownerPV = None
    /\ licensorPV = None

CallPvOwner ==
    /\ ownerPV' = pvOwner(i)
    /\ UNCHANGED <<i, licensorPV, mechVars, curveVars, pageVars, loeVars, svcVars>>

CallPvLicensor ==
    /\ licensorPV' = pvLicensor(i)
    /\ UNCHANGED <<i, ownerPV, mechVars, curveVars, pageVars, loeVars, svcVars>>

InitDcf == DcfInit /\ MechIdle /\ CurveIdle /\ PageIdle /\ LoeIdle /\ SvcIdle

NextDcf ==
    \/ CallPvOwner
    \/ CallPvLicensor

SpecDcf == InitDcf /\ [][NextDcf]_vars

----------------------------------------------------------------------------
(* The page's derived outputs: what a render of Home computes *)

\* devCosts[phase] ?? 0
devCost(ph) == IF ph \in DOMAIN devCosts THEN devCosts[ph] ELSE Zero

\* Math.round of a number: the nearest integer, a tie rounded up
MathRound(x) == (2 * x[1] + x[2]) \div (2 * x[2])

\* the DcfInputs the page passes to pvOwner (no royaltyPctAt)
OwnerDcfInputs ==
    [currentYear |-> currentYear, launchYear |-> launchYear, loeYear |-> loeYear,
     discountRate |-> discountRate, taxRate |-> taxRate, peakSales |-> peakSales,
     cogs |-> cogs, commercialSpend |-> commercialSpend,
     workingCapital |-> workingCapital, royaltyPctAt |-> NoRoyaltyFn]

\* the DcfInputs the page passes to pvLicensor: the royalty closure, and 0 for
\* cogs, commercialSpend and workingCapital
LicensorDcfInputs ==
    [currentYear |-> currentYear, launchYear |-> launchYear, loeYear |-> loeYear,
     discountRate |-> discountRate, taxRate |-> taxRate, peakSales |-> peakSales,
     cogs |-> Zero, commercialSpend |-> Zero, workingCapital |-> Zero,
     royaltyPctAt |-> RoyaltyFn(royaltyMin, royaltyMax, royaltyRampYears)]

\* the dependency arrays of the useMemo hooks (mechanismBonus depends on the
\* eight mechanistic inputs, MechInputs)
OwnerDeps_NoPeakSales ==
    <<currentYear, launchYear, loeYear, discountRate, taxRate,
      cogs, commercialSpend, workingCapital>>

OwnerDeps ==
    <<currentYear, launchYear, loeYear, discountRate, taxRate, peakSales,
      cogs, commercialSpend, workingCapital>>

LicensorDeps ==
    <<currentYear, launchYear, loeYear, discountRate, taxRate, peakSales,
      royaltyMin, royaltyMax, royaltyRampYears>>

AvgRoyaltyDeps == <<launchYear, loeYear, royaltyMin, royaltyMax, royaltyRampYears>>

\* faulty variant: the two roles the wrong way round
selectedPV_Swapped == IF role = "OWNER" THEN licensorPV ELSE ownerPV

\* selectedPV = role === 'OWNER' ? ownerPV : licensorPV
selectedPV == IF role = "OWNER" THEN ownerPV ELSE licensorPV

\* faulty variant: Math.floor in place of Math.round
RoiOf_Floor(r, d) ==
    IF d # Zero THEN LET x == Mul(Div(r, d), R(100)) IN x[1] \div x[2] ELSE 0

\* roi = devCostPV !== 0 ? Math.round((rnpv / devCostPV) * 100) : 0
RoiOf(r, d) == IF d # Zero THEN MathRound(Mul(Div(r, d), R(100))) ELSE 0

\* a render of Home once the state cells hold their new values: a useMemo
\* keeps its value when it has one and its dependencies are unchanged, and
\* everything else is computed again
RenderOutputs ==
    /\ mechanismBonus' = IF mechanismBonus # None /\ MechInputs' = MechInputs
                         THEN mechanismBonus ELSE MechanismBonusOf(MechInputs')
    /\ ownerPV' = IF ownerPV # None /\ OwnerDeps' = OwnerDeps
                  THEN ownerPV ELSE pvOwner(OwnerDcfInputs')
    /\ licensorPV' = IF licensorPV # None /\ LicensorDeps' = LicensorDeps
                     THEN licensorPV ELSE pvLicensor(LicensorDcfInputs')
    /\ avgRoyalty' = IF avgRoyalty # None /\ AvgRoyaltyDeps' = AvgRoyaltyDeps
                     THEN avgRoyalty
                     ELSE averageRoyalty(launchYear', loeYear', royaltyMin',
                                         royaltyMax', royaltyRampYears')
    /\ devCostPV' = Mul(devCost(phase'), Sub(One, taxRate'))
    /\ ptrs' = PtrsOf(phase', mechanismBonus')
    /\ rnpv' = Sub(Mul(selectedPV', ptrs'), devCostPV')
    /\ roi' = RoiOf(rnpv', devCostPV')

mechInputVars == <<potency, selectivity, halfLife, molecularWeight, logP,
                   bioavailability, targetValidation, targetNovelty>>
finInputVars == <<peakSales, launchYear, loeYear, discountRate, taxRate, cogs,
                  commercialSpend, workingCapital, royaltyMin, royaltyMax,
                  royaltyRampYears>>

----------------------------------------------------------------------------
(* The composition of the outputs, for any state the page can hold *)

\* the phase keys a page can hold: the six of the tables, and a key none of
\* them has (loadValuation sets the stored phase as it is)
PhaseValues == PhaseKeys \cup {"Phase 2"}
Roles == {"OWNER", "LICENSOR"}

\* mechanistic profiles: the defaults, every adjustment at its worst (the sum
\* 0.35 below the floor), every adjustment at its best (1.75), and a neutral one
WorstMechInputs ==
    [potency |-> R(101), selectivity |-> R(-4), halfLife |-> R(25),
     molecularWeight |-> R(501), logP |-> <<31, 10>>,
     bioavailability |-> <<-1, 10>>, targetValidation |-> <<-1, 10>>,
     targetNovelty |-> <<4, 5>>]
BestMechInputs ==
    [potency |-> R(-5), selectivity |-> R(31), halfLife |-> R(12),
     molecularWeight |-> R(-10), logP |-> R(1),
     bioavailability |-> <<3, 2>>, targetValidation |-> <<4, 5>>,
     targetNovelty |-> <<-1, 10>>]
NeutralMechInputs == [DefaultMechInputs EXCEPT !.logP = <<31, 10>>, !.halfLife = R(25)]
MechProfiles == {DefaultMechInputs, WorstMechInputs, BestMechInputs, NeutralMechInputs}

ComposeHorizons == {1, 3, MaxHorizon}
ComposePeakSales == {R(0), R(500)}
ComposeDiscountRates == {R(0), R(1)}
ComposeCogs == {R(0), R(1)}

\* the page holds any inputs and the default role; nothing is derived yet
ComposeInit ==
    /\ \E m \in MechProfiles :
         /\ potency = m.potency /\ selectivity = m.selectivity
         /\ halfLife = m.halfLife /\ molecularWeight = m.molecularWeight
         /\ logP = m.logP /\ bioavailability = m.bioavailability
         /\ targetValidation = m.targetValidation /\ targetNovelty = m.targetNovelty
    /\ phase \in PhaseValues
    /\ role = "OWNER"
    /\ currentYear \in CurrentYears
    /\ launchYear = FirstYear
    /\ loeYear \in {launchYear + h : h \in ComposeHorizons}
    /\ peakSales \in ComposePeakSales
    /\ discountRate \in ComposeDiscountRates
    /\ taxRate \in TaxRates
    /\ cogs \in ComposeCogs
    /\ commercialSpend = <<1, 2>>
    /\ workingCapital = Zero
    /\ royaltyMin = R(5) /\ royaltyMax = R(12) /\ royaltyRampYears = MaxRamp
    /\ mechanismBonus = None /\ ptrs = None
    /\ ownerPV = None /\ licensorPV = None /\ i = None
    /\ devCostPV = None /\ rnpv = None /\ roi = None /\ avgRoyalty = None
    /\ AuxIdle

\* the first render of the page
FirstRender ==
    /\ rnpv = None
    /\ UNCHANGED <<mechInputVars, phase, role, finInputVars, currentYear, i, curveVars,
                   loeVars, svcVars, auxVars, sessionVars>>
    /\ RenderOutputs


----------------------------------------------------------------------------
(* The page in use: change events, each followed by the render it causes *)

\* the number of events followed
MaxEvents == 3

\* the values the fields are changed between (the first of each pair is the
\* value the page starts with)
PotencyEdits == {R(5), R(50)}
SelectivityEdits == {R(10), R(31)}
HalfLifeEdits == {R(12), R(25)}
MolecularWeightEdits == {R(400), R(501)}
LogPEdits == {R(2), <<31, 10>>}
BioavailabilityEdits == {<<1, 2>>, <<1, 10>>}
TargetValidationEdits == {<<1, 2>>, <<4, 5>>}
TargetNoveltyEdits == {<<1, 2>>, <<1, 10>>}
PeakSalesEdits == {R(500), R(100)}
DiscountRateEdits == {<<1, 2>>, R(0)}
TaxRateEdits == {<<1, 4>>, R(1)}
CogsEdits == {R(0), R(1)}
CommercialSpendEdits == {<<1, 2>>, R(0)}
WorkingCapitalEdits == {R(0), <<1, 2>>}
RoyaltyMinEdits == {R(5), R(0)}
RoyaltyMaxEdits == {R(12), R(5)}
RoyaltyRampYearsEdits == {MaxRamp, 0}
YearEdits == {FirstYear, FirstYear + 2, FirstYear + 3, FirstYear + 5}

\* the page with its form filled in and nothing derived yet.  (The useState
\* defaults give a ten-year horizon fifteen years out at 10%, whose discount
\* factors do not fit exact 32-bit rationals; the page starts from a
\* three-year horizon at 50%.)
PageInit ==
    /\ potency = R(50) /\ selectivity = R(10) /\ halfLife = R(12)
    /\ molecularWeight = R(400) /\ logP = R(2) /\ bioavailability = <<1, 2>>
    /\ targetValidation = <<1, 2>> /\ targetNovelty = <<1, 2>>
    /\ phase = "Preclinical"
    /\ role = "OWNER"
    /\ currentYear = FirstYear
    /\ launchYear = FirstYear
    /\ loeYear = FirstYear + 3
    /\ peakSales = R(500)
    /\ discountRate = <<1, 2>>
    /\ taxRate = <<1, 4>>
    /\ cogs = Zero
    /\ commercialSpend = <<1, 2>>
    /\ workingCapital = Zero
    /\ royaltyMin = R(5) /\ royaltyMax = R(12) /\ royaltyRampYears = MaxRamp
    /\ mechanismBonus = None /\ ptrs = None
    /\ ownerPV = None /\ licensorPV = None /\ i = None
    /\ devCostPV = None /\ rnpv = None /\ roi = None /\ avgRoyalty = None
    /\ AuxIdle

\* an event is handled on a rendered page
CanHandle == rnpv # None /\ events < MaxEvents

\* after a change of the inputs: the event is counted and the page renders
InputChanged ==
    /\ events' = events + 1
    /\ UNCHANGED <<currentYear, i, curveVars, loeVars, svcVars, toastMsg, shareLink, trialSponsor,
                   sessionVars>>
    /\ RenderOutputs

\* onChange of the field: setPotency(Number(e.target.value))
setPotency ==
    /\ CanHandle
    /\ \E v \in PotencyEdits \ {potency} : potency' = v
    /\ UNCHANGED <<selectivity, halfLife, molecularWeight, logP, bioavailability,
                   targetValidation, targetNovelty, phase, role, peakSales,
                   launchYear, loeYear, discountRate, taxRate, cogs, commercialSpend,
                   workingCapital, royaltyMin, royaltyMax, royaltyRampYears>>
    /\ InputChanged

\* onChange of the field: setSelectivity(Number(e.target.value))
setSelectivity ==
    /\ CanHandle
    /\ \E v \in SelectivityEdits \ {selectivity} : selectivity' = v
    /\ UNCHANGED <<potency, halfLife, molecularWeight, logP, bioavailability,
                   targetValidation, targetNovelty, phase, role, peakSales,
                   launchYear, loeYear, discountRate, taxRate, cogs, commercialSpend,
                   workingCapital, royaltyMin, royaltyMax, royaltyRampYears>>
    /\ InputChanged

\* onChange of the field: setHalfLife(Number(e.target.value))
setHalfLife ==
    /\ CanHandle
    /\ \E v \in HalfLifeEdits \ {halfLife} : halfLife' = v
    /\ UNCHANGED <<potency, selectivity, molecularWeight, logP, bioavailability,
                   targetValidation, targetNovelty, phase, role, peakSales,
                   launchYear, loeYear, discountRate, taxRate, cogs, commercialSpend,
                   workingCapital, royaltyMin, royaltyMax, royaltyRampYears>>
    /\ InputChanged

\* onChange of the field: setMolecularWeight(Number(e.target.value))
setMolecularWeight ==
    /\ CanHandle
    /\ \E v \in MolecularWeightEdits \ {molecularWeight} : molecularWeight' = v
    /\ UNCHANGED <<potency, selectivity, halfLife, logP, bioavailability,
                   targetValidation, targetNovelty, phase, role, peakSales,
                   launchYear, loeYear, discountRate, taxRate, cogs, commercialSpend,
                   workingCapital, royaltyMin, royaltyMax, royaltyRampYears>>
    /\ InputChanged

\* onChange of the field: setLogP(Number(e.target.value))
setLogP ==
    /\ CanHandle
    /\ \E v \in LogPEdits \ {logP} : logP' = v
    /\ UNCHANGED <<potency, selectivity, halfLife, molecularWeight, bioavailability,
                   targetValidation, targetNovelty, phase, role, peakSales,
                   launchYear, loeYear, discountRate, taxRate, cogs, commercialSpend,
                   workingCapital, royaltyMin, royaltyMax, royaltyRampYears>>
    /\ InputChanged

\* onChange of the field: setBioavailability(Number(e.target.value))
setBioavailability ==
    /\ CanHandle
    /\ \E v \in BioavailabilityEdits \ {bioavailability} : bioavailability' = v
    /\ UNCHANGED <<potency, selectivity, halfLife, molecularWeight, logP,
                   targetValidation, targetNovelty, phase, role, peakSales,
                   launchYear, loeYear, discountRate, taxRate, cogs, commercialSpend,
                   workingCapital, royaltyMin, royaltyMax, royaltyRampYears>>
    /\ InputChanged

\* onChange of the field: setTargetValidation(Number(e.target.value))
setTargetValidation ==
    /\ CanHandle
    /\ \E v \in TargetValidationEdits \ {targetValidation} : targetValidation' = v
    /\ UNCHANGED <<potency, selectivity, halfLife, molecularWeight, logP,
                   bioavailability, targetNovelty, phase, role, peakSales,
                   launchYear, loeYear, discountRate, taxRate, cogs, commercialSpend,
                   workingCapital, royaltyMin, royaltyMax, royaltyRampYears>>
    /\ InputChanged

\* onChange of the field: setTargetNovelty(Number(e.target.value))
setTargetNovelty ==
    /\ CanHandle
    /\ \E v \in TargetNoveltyEdits \ {targetNovelty} : targetNovelty' = v
    /\ UNCHANGED <<potency, selectivity, halfLife, molecularWeight, logP,
                   bioavailability, targetValidation, phase, role, peakSales,
                   launchYear, loeYear, discountRate, taxRate, cogs, commercialSpend,
                   workingCapital, royaltyMin, royaltyMax, royaltyRampYears>>
    /\ InputChanged

\* onChange of the phase select, whose options are the keys of devCosts
setPhase ==
    /\ CanHandle
    /\ \E p \in PhaseKeys \ {phase} : phase' = p
    /\ UNCHANGED <<potency, selectivity, halfLife, molecularWeight, logP,
                   bioavailability, targetValidation, targetNovelty, role, peakSales,
                   launchYear, loeYear, discountRate, taxRate, cogs, commercialSpend,
                   workingCapital, royaltyMin, royaltyMax, royaltyRampYears>>
    /\ InputChanged

\* onChange of the role radio buttons
setRole ==
    /\ CanHandle
    /\ \E r \in Roles \ {role} : role' = r
    /\ UNCHANGED <<potency, selectivity, halfLife, molecularWeight, logP,
                   bioavailability, targetValidation, targetNovelty, phase,
                   peakSales, launchYear, loeYear, discountRate, taxRate, cogs,
                   commercialSpend, workingCapital, royaltyMin, royaltyMax,
                   royaltyRampYears>>
    /\ InputChanged

\* handleLaunchYearChange(y): setLaunchYear(y); if (y >= loeYear) setLoeYear(y + 1)
handleLaunchYearChange ==
    /\ CanHandle
    /\ \E y \in YearEdits \ {launchYear} :
         /\ launchYear' = y
         /\ loeYear' = IF y >= loeYear THEN y + 1 ELSE loeYear
    /\ UNCHANGED <<potency, selectivity, halfLife, molecularWeight, logP,
                   bioavailability, targetValidation, targetNovelty, phase, role,
                   peakSales, discountRate, taxRate, cogs, commercialSpend,
                   workingCapital, royaltyMin, royaltyMax, royaltyRampYears>>
    /\ InputChanged

\* faulty variant: the LOE year is set and the launch year is never pushed down
handleLoeYearChange_KeepsLaunch ==
    /\ CanHandle
    /\ \E y \in YearEdits \ {loeYear} : loeYear' = y
    /\ UNCHANGED <<potency, selectivity, halfLife, molecularWeight, logP,
                   bioavailability, targetValidation, targetNovelty, phase, role,
                   peakSales, launchYear, discountRate, taxRate, cogs, commercialSpend,
                   workingCapital, royaltyMin, royaltyMax, royaltyRampYears>>
    /\ InputChanged

\* handleLoeYearChange(y): setLoeYear(y); if (y <= launchYear) setLaunchYear(y - 1)
handleLoeYearChange ==
    /\ CanHandle
    /\ \E y \in YearEdits \ {loeYear} :
         /\ loeYear' = y
         /\ launchYear' = IF y <= launchYear THEN y - 1 ELSE launchYear
    /\ UNCHANGED <<potency, selectivity, halfLife, molecularWeight, logP,
                   bioavailability, targetValidation, targetNovelty, phase, role,
                   peakSales, discountRate, taxRate, cogs, commercialSpend,
                   workingCapital, royaltyMin, royaltyMax, royaltyRampYears>>
    /\ InputChanged

\* onChange of the field: setPeakSales(Number(e.target.value))
setPeakSales ==
    /\ CanHandle
    /\ \E v \in PeakSalesEdits \ {peakSales} : peakSales' = v
    /\ UNCHANGED <<potency, selectivity, halfLife, molecularWeight, logP,
                   bioavailability, targetValidation, targetNovelty, phase, role,
                   launchYear, loeYear, discountRate, taxRate, cogs, commercialSpend,
                   workingCapital, royaltyMin, royaltyMax, royaltyRampYears>>
    /\ InputChanged

\* onChange of the field: setDiscountRate(Number(e.target.value))
setDiscountRate ==
    /\ CanHandle
    /\ \E v \in DiscountRateEdits \ {discountRate} : discountRate' = v
    /\ UNCHANGED <<potency, selectivity, halfLife, molecularWeight, logP,
                   bioavailability, targetValidation, targetNovelty, phase, role,
                   peakSales, launchYear, loeYear, taxRate, cogs, commercialSpend,
                   workingCapital, royaltyMin, royaltyMax, royaltyRampYears>>
    /\ InputChanged

\* onChange of the field: setTaxRate(Number(e.target.value))
setTaxRate ==
    /\ CanHandle
    /\ \E v \in TaxRateEdits \ {taxRate} : taxRate' = v
    /\ UNCHANGED <<potency, selectivity, halfLife, molecularWeight, logP,
                   bioavailability, targetValidation, targetNovelty, phase, role,
                   peakSales, launchYear, loeYear, discountRate, cogs,
                   commercialSpend, workingCapital, royaltyMin, royaltyMax,
                   royaltyRampYears>>
    /\ InputChanged

\* onChange of the field: setCogs(Number(e.target.value))
setCogs ==
    /\ CanHandle
    /\ \E v \in CogsEdits \ {cogs} : cogs' = v
    /\ UNCHANGED <<potency, selectivity, halfLife, molecularWeight, logP,
                   bioavailability, targetValidation, targetNovelty, phase, role,
                   peakSales, launchYear, loeYear, discountRate, taxRate,
                   commercialSpend, workingCapital, royaltyMin, royaltyMax,
                   royaltyRampYears>>
    /\ InputChanged

\* onChange of the field: setCommercialSpend(Number(e.target.value))
setCommercialSpend ==
    /\ CanHandle
    /\ \E v \in CommercialSpendEdits \ {commercialSpend} : commercialSpend' = v
    /\ UNCHANGED <<potency, selectivity, halfLife, molecularWeight, logP,
                   bioavailability, targetValidation, targetNovelty, phase, role,
                   peakSales, launchYear, loeYear, discountRate, taxRate, cogs,
                   workingCapital, royaltyMin, royaltyMax, royaltyRampYears>>
    /\ InputChanged

\* onChange of the field: setWorkingCapital(Number(e.target.value))
setWorkingCapital ==
    /\ CanHandle
    /\ \E v \in WorkingCapitalEdits \ {workingCapital} : workingCapital' = v
    /\ UNCHANGED <<potency, selectivity, halfLife, molecularWeight, logP,
                   bioavailability, targetValidation, targetNovelty, phase, role,
                   peakSales, launchYear, loeYear, discountRate, taxRate, cogs,
                   commercialSpend, royaltyMin, royaltyMax, royaltyRampYears>>
    /\ InputChanged

\* onChange of the field: setRoyaltyMin(Number(e.target.value))
setRoyaltyMin ==
    /\ CanHandle
    /\ \E v \in RoyaltyMinEdits \ {royaltyMin} : royaltyMin' = v
    /\ UNCHANGED <<potency, selectivity, halfLife, molecularWeight, logP,
                   bioavailability, targetValidation, targetNovelty, phase, role,
                   peakSales, launchYear, loeYear, discountRate, taxRate, cogs,
                   commercialSpend, workingCapital, royaltyMax, royaltyRampYears>>
    /\ InputChanged

\* onChange of the field: setRoyaltyMax(Number(e.target.value))
setRoyaltyMax ==
    /\ CanHandle
    /\ \E v \in RoyaltyMaxEdits \ {royaltyMax} : royaltyMax' = v
    /\ UNCHANGED <<potency, selectivity, halfLife, molecularWeight, logP,
                   bioavailability, targetValidation, targetNovelty, phase, role,
                   peakSales, launchYear, loeYear, discountRate, taxRate, cogs,
                   commercialSpend, workingCapital, royaltyMin, royaltyRampYears>>
    /\ InputChanged

\* onChange of the field: setRoyaltyRampYears(Number(e.target.value))
setRoyaltyRampYears ==
    /\ CanHandle
    /\ \E v \in RoyaltyRampYearsEdits \ {royaltyRampYears} : royaltyRampYears' = v
    /\ UNCHANGED <<potency, selectivity, halfLife, molecularWeight, logP,
                   bioavailability, targetValidation, targetNovelty, phase, role,
                   peakSales, launchYear, loeYear, discountRate, taxRate, cogs,
                   commercialSpend, workingCapital, royaltyMin, royaltyMax>>
    /\ InputChanged

\* no input changes: the page renders again with its state cells as they are
InputsKept ==
    /\ UNCHANGED <<mechInputVars, phase, role, finInputVars, currentYear, i, curveVars,
                   loeVars, svcVars>>
    /\ events' = events + 1
    /\ RenderOutputs

\* notify(message): the toast takes the message and a timer of 4000 ms is
\* started, which nothing cancels
notify(message) ==
    /\ toastMsg' = message
    /\ toastBy' = events + 1
    /\ timers' = Append(timers, events + 1)

\* the select of the indication: setIndication(e.target.value)
Indications == {"Oncology", "Rare Disease"}

setIndication ==
    /\ CanHandle
    /\ \E v \in Indications \ {indication} : indication' = v
    /\ UNCHANGED <<shareLink, trialSponsor, toastMsg, timers, toastBy, valuations,
                   trialData>>
    /\ InputsKept

\* getInputs(): the record saveValuation posts.  JSON.stringify and the
\* route's JSON column keep every finite number and every string as it is.
getInputs ==
    [peakSales |-> peakSales, launchYear |-> launchYear, loeYear |-> loeYear,
     discountRate |-> discountRate, taxRate |-> taxRate, cogs |-> cogs,
     commercialSpend |-> commercialSpend, workingCapital |-> workingCapital,
     potency |-> potency, selectivity |-> selectivity, halfLife |-> halfLife,
     molecularWeight |-> molecularWeight, logP |-> logP,
     bioavailability |-> bioavailability, targetValidation |-> targetValidation,
     targetNovelty |-> targetNovelty, phase |-> phase, indication |-> indication,
     royaltyMin |-> royaltyMin, royaltyMax |-> royaltyMax,
     royaltyRampYears |-> royaltyRampYears, role |-> role]

\* getOutputs(): the derived values saveValuation posts with the inputs
getOutputs ==
    [mechanismBonus |-> mechanismBonus, ptrs |-> ptrs, devCostPV |-> devCostPV,
     ownerPV |-> ownerPV, licensorPV |-> licensorPV, rnpv |-> rnpv, roi |-> roi]

\* the continuation of saveValuation once the POST has answered: the route
\* has stored the inputs and the outputs, the page takes the share link and the toast; on a
\* failure the toast alone
saveValuationDone ==
    /\ CanHandle
    /\ \E ok \in BOOLEAN :
         /\ shareLink' = IF ok THEN "link" ELSE shareLink
         /\ valuations' = IF ok THEN Append(valuations, [inputs |-> getInputs,
                                                           outputs |-> getOutputs])
                          ELSE valuations
         /\ notify(IF ok THEN "Valuation saved." ELSE "Save failed.")
    /\ UNCHANGED <<trialSponsor, indication, trialData>>
    /\ InputsKept

\* faulty variant: the licensing defaults taken with || , so that a stored 0
\* is replaced as well
LoadedInputs_FalsyDefaults(inp) ==
    [inp EXCEPT
       !.royaltyMin = IF inp.royaltyMin = Zero THEN R(5) ELSE inp.royaltyMin,
       !.royaltyMax = IF inp.royaltyMax = Zero THEN R(12) ELSE inp.royaltyMax,
       !.royaltyRampYears = IF inp.royaltyRampYears = 0 THEN 3 ELSE inp.royaltyRampYears]

\* what the setters of loadValuation receive from the stored inputs i: each
\* field as stored, with the defaults of i.royaltyMin ?? 5, i.royaltyMax ?? 12,
\* i.royaltyRampYears ?? 3 and i.role ?? 'OWNER' for a field that is missing
LoadedInputs(inp) ==
    [f \in DOMAIN inp \cup {"royaltyMin", "royaltyMax", "royaltyRampYears", "role"} |->
       IF f \in DOMAIN inp THEN inp[f]
       ELSE CASE f = "royaltyMin" -> R(5)
              [] f = "royaltyMax" -> R(12)
              [] f = "royaltyRampYears" -> 3
              [] f = "role" -> "OWNER"]

\* the continuation of loadValuation once the lookup has answered: every
\* input takes the stored value, then the share link and the toast; on a
\* failure (no such valuation, no answer) the toast alone
loadValuationDone ==
    /\ CanHandle
    /\ \/ \E k \in 1..Len(valuations) :
            LET l == LoadedInputs(valuations[k].inputs) IN
            /\ peakSales' = l.peakSales /\ launchYear' = l.launchYear
            /\ loeYear' = l.loeYear /\ discountRate' = l.discountRate
            /\ taxRate' = l.taxRate /\ cogs' = l.cogs
            /\ commercialSpend' = l.commercialSpend
            /\ workingCapital' = l.workingCapital
            /\ potency' = l.potency /\ selectivity' = l.selectivity
            /\ halfLife' = l.halfLife /\ molecularWeight' = l.molecularWeight
            /\ logP' = l.logP /\ bioavailability' = l.bioavailability
            /\ targetValidation' = l.targetValidation
            /\ targetNovelty' = l.targetNovelty
            /\ phase' = l.phase /\ indication' = l.indication
            /\ royaltyMin' = l.royaltyMin /\ royaltyMax' = l.royaltyMax
            /\ royaltyRampYears' = l.royaltyRampYears
            /\ role' = l.role
            /\ shareLink' = "link"
            /\ notify("Valuation loaded.")
       \/ /\ UNCHANGED <<mechInputVars, phase, role, finInputVars, indication, shareLink>>
          /\ notify("Load failed.")
    /\ UNCHANGED <<trialSponsor, valuations, trialData, currentYear, i, curveVars, loeVars, svcVars>>
    /\ events' = events + 1
    /\ RenderOutputs

\* the year the LOE route answers with
LoeRouteYear == 2035

\* the continuation of getLoeFromApi(indication) once the LOE route has
\* answered: setLoeYear(data.loeYear) and the toast; the toast alone when the
\* fetch fails
getLoeFromApiDone ==
    /\ CanHandle
    /\ \E ok \in BOOLEAN :
         /\ loeYear' = IF ok THEN LoeRouteYear ELSE loeYear
         /\ notify(IF ok THEN "LOE set" ELSE "LOE lookup failed.")
    /\ UNCHANGED <<mechInputVars, phase, role, peakSales, launchYear, discountRate,
                   taxRate, cogs, commercialSpend, workingCapital, royaltyMin,
                   royaltyMax, royaltyRampYears, indication, shareLink, trialSponsor,
                   valuations, trialData, currentYear, i, curveVars, loeVars, svcVars>>
    /\ events' = events + 1
    /\ RenderOutputs

\* String.prototype.toLowerCase on the letters A-Z
UpperCase == "ABCDEFGHIJKLMNOPQRSTUVWXYZ"
LowerCase == "abcdefghijklmnopqrstuvwxyz"

LowerChar(c) ==
    IF \E k \in 1..26 : SubSeq(UpperCase, k, k) = c
    THEN LET k == CHOOSE k \in 1..26 : SubSeq(UpperCase, k, k) = c
         IN SubSeq(LowerCase, k, k)
    ELSE c

RECURSIVE toLowerCase(_)
toLowerCase(p) ==
    IF p = "" THEN ""
    ELSE LowerChar(SubSeq(p, 1, 1)) \o toLowerCase(SubSeq(p, 2, Len(p)))

\* String.prototype.includes
includes(t, part) ==
    \E k \in 0..(Len(t) - Len(part)) : SubSeq(t, k + 1, k + Len(part)) = part

\* normalizePhase(p): the tests in the order of the source, the first that
\* matches deciding; "undefined" for no key (and for a missing or empty label)
normalizePhase(p) ==
    IF p = "" THEN "undefined"
    ELSE LET t == toLowerCase(p) IN
         IF includes(t, "phase 1") \/ includes(t, "phase i") THEN "Phase I"
         ELSE IF includes(t, "phase 2") \/ includes(t, "phase ii") THEN "Phase II"
         ELSE IF includes(t, "phase 3") \/ includes(t, "phase iii") THEN "Phase III"
         ELSE IF includes(t, "nda") \/ includes(t, "bla") THEN "NDA"
         ELSE IF includes(t, "approved") THEN "Approved"
         ELSE IF includes(t, "pre") \/ includes(t, "nonclinical") THEN "Preclinical"
         ELSE IF includes(t, "2/3") THEN "Phase III"
         ELSE IF includes(t, "1/2") THEN "Phase II"
         ELSE "undefined"

\* the phase labels a trial route answers with
TrialPhaseLabels ==
    {"Phase 1", "Phase I", "Phase 2", "Phase II", "Phase 3", "Phase III",
     "Phase 1/Phase 2", "NDA", "Approved", "Preclinical", "Not Applicable", ""}

\* the continuation of getTrialFromApi once the lookup has answered: the phase
\* when normalizePhase maps the answer to one, the sponsor and the toast
getTrialFromApiDone ==
    /\ CanHandle
    /\ \E label \in TrialPhaseLabels :
         LET mapped == normalizePhase(label) IN
         /\ trialData' = label
         /\ phase' = IF mapped # "undefined" THEN mapped ELSE phase
    /\ trialSponsor' = "sponsor"
    /\ notify("Trial fetched.")
    /\ UNCHANGED <<mechInputVars, role, finInputVars, currentYear, i, curveVars,
                   loeVars, svcVars, shareLink, indication, valuations>>
    /\ events' = events + 1
    /\ RenderOutputs

\* the oldest timer of notify fires: setToastMsg(null)
toastTimeout ==
    /\ CanHandle
    /\ timers # <<>>
    /\ timers' = Tail(timers)
    /\ toastMsg' = "null"
    /\ UNCHANGED <<shareLink, trialSponsor, toastBy, indication, valuations, trialData>>
    /\ InputsKept

\* the composition for any inputs: the first render and changes of the role
InitCompose == ComposeInit /\ CurveIdle /\ LoeIdle /\ SvcIdle

NextCompose ==
    \/ FirstRender
    \/ setRole

SpecCompose == InitCompose /\ [][NextCompose]_vars

InitPage == PageInit /\ CurveIdle /\ LoeIdle /\ SvcIdle

NextPage ==
    \/ FirstRender
    \/ setPotency
    \/ setSelectivity
    \/ setHalfLife
    \/ setMolecularWeight
    \/ setLogP
    \/ setBioavailability
    \/ setTargetValidation
    \/ setTargetNovelty
    \/ setPhase
    \/ setRole
    \/ handleLaunchYearChange
    \/ handleLoeYearChange
    \/ setPeakSales
    \/ setDiscountRate
    \/ setTaxRate
    \/ setCogs
    \/ setCommercialSpend
    \/ setWorkingCapital
    \/ setRoyaltyMin
    \/ setRoyaltyMax
    \/ setRoyaltyRampYears
    \/ setIndication
    \/ saveValuationDone
    \/ loadValuationDone
    \/ getLoeFromApiDone
    \/ getTrialFromApiDone
    \/ toastTimeout

SpecPage == InitPage /\ [][NextPage]_vars

----------------------------------------------------------------------------
(* Calls of the LOE resolver *)

InitLoe == LoeInit /\ MechIdle /\ CurveIdle /\ DcfIdle /\ PageIdle /\ SvcIdle

NextLoe == CallComputeLoeYear

SpecLoe == InitLoe /\ [][NextLoe]_vars

----------------------------------------------------------------------------
(* Calls of the in-memory store, and of the database-backed routes *)

InitStore == StoreIdle /\ DbIdle /\ MechIdle /\ CurveIdle /\ DcfIdle /\ PageIdle /\ LoeIdle

NextStore == createValuation

SpecStore == InitStore /\ [][NextStore]_vars

InitDb == InitStore

NextDb ==
    \/ postValuation
    \/ getValuationRoute

SpecDb == InitDb /\ [][NextDb]_vars

----------------------------------------------------------------------------
(* Claims about the mechanism bonus, checked under SpecMech *)

\* the sum the page clamps, in hundredths
UnclampedBonus == ApplyAdjustments(SourceOrder, 100, MechInputs)

\* C1: for every combination of the eight mechanistic inputs, negative and
\* out-of-range values included, 0.5 <= mechanismBonus <= 2.0.
C1_ClampProperty ==
    mechanismBonus # None =>
        /\ Le(<<1, 2>>, mechanismBonus)
        /\ Le(mechanismBonus, R(2))

\* C1 witness: a rendered state whose unclamped sum is below 0.5, with a
\* negative input, where the clamp gave 0.5
C1_Witness ==
    /\ mechanismBonus = <<1, 2>>
    /\ UnclampedBonus < 50
    /\ Lt(selectivity, Zero)

\* the deltas of the specification's table, in hundredths, one per property
TableDelta(k, in) ==
    CASE k = 1 -> IF Lt(in.potency, R(10)) THEN 10
                  ELSE IF Gt(in.potency, R(100)) THEN -10 ELSE 0
      [] k = 2 -> IF Lt(in.selectivity, R(5)) THEN -10
                  ELSE IF Gt(in.selectivity, R(30)) THEN 10 ELSE 0
      [] k = 3 -> IF Lt(in.halfLife, R(2)) \/ Gt(in.halfLife, R(24)) THEN -5 ELSE 0
      [] k = 4 -> IF Lt(in.molecularWeight, R(200)) THEN 5
                  ELSE IF Gt(in.molecularWeight, R(500)) THEN -5 ELSE 0
      [] k = 5 -> IF Le(R(1), in.logP) /\ Le(in.logP, R(3)) THEN 10 ELSE -5
      [] k = 6 -> IF Lt(in.bioavailability, <<1, 5>>) THEN -10
                  ELSE IF Gt(in.bioavailability, <<1, 2>>) THEN 10 ELSE 0
      [] k = 7 -> IF Lt(in.targetValidation, <<3, 10>>) THEN -10
                  ELSE IF Gt(in.targetValidation, <<7, 10>>) THEN 20 ELSE 0
      [] k = 8 -> IF Lt(in.targetNovelty, <<3, 10>>) THEN 10
                  ELSE IF Gt(in.targetNovelty, <<7, 10>>) THEN -10 ELSE 0

RECURSIVE SumTableDeltas(_, _)
SumTableDeltas(k, in) == IF k = 0 THEN 0 ELSE TableDelta(k, in) + SumTableDeltas(k - 1, in)

\* clamp(x, 0.5, 2.0) on hundredths
TableClamp(x) == IF x < 50 THEN 50 ELSE IF x > 200 THEN 200 ELSE x

\* the strict thresholds of the table
OnStrictThreshold(k, in) ==
    CASE k = 1 -> in.potency \in {R(10), R(100)}
      [] k = 2 -> in.selectivity \in {R(5), R(30)}
      [] k = 3 -> in.halfLife \in {R(2), R(24)}
      [] k = 4 -> in.molecularWeight \in {R(200), R(500)}
      [] k = 5 -> FALSE
      [] k = 6 -> in.bioavailability \in {<<1, 5>>, <<1, 2>>}
      [] k = 7 -> in.targetValidation \in {<<3, 10>>, <<7, 10>>}
      [] k = 8 -> in.targetNovelty \in {<<3, 10>>, <<7, 10>>}

\* orders in which the eight statements could be applied
Orders ==
    {SourceOrder,
     <<8, 7, 6, 5, 4, 3, 2, 1>>,
     <<2, 1, 4, 3, 6, 5, 8, 7>>,
     <<5, 1, 7, 3, 8, 2, 6, 4>>,
     <<7, 8, 1, 2, 3, 4, 5, 6>>}

\* C2: mechanismBonus = clamp(1.0 + the sum of the eight table deltas, 0.5, 2.0);
\* each statement of the page adds exactly its property's table delta, a value
\* on a strict threshold adds nothing, and applying the statements in another
\* order gives the same bonus.
C2_BonusIsClampedTableSum ==
    mechanismBonus # None =>
        /\ mechanismBonus = Rat(TableClamp(100 + SumTableDeltas(8, MechInputs)), 100)
        /\ \A k \in 1..8 :
              /\ Adjust(k, 100, MechInputs) = 100 + TableDelta(k, MechInputs)
              /\ OnStrictThreshold(k, MechInputs) => Adjust(k, 100, MechInputs) = 100
        /\ \A order \in Orders :
              Rat(ClampBonus(ApplyAdjustments(order, 100, MechInputs)), 100) = mechanismBonus

\* C2 witness: a rendered state with inputs exactly on strict thresholds, the
\* others contributing, and a bonus that is not 1.0
C2_Witness ==
    /\ mechanismBonus # None
    /\ potency = R(10)
    /\ bioavailability = <<1, 2>>
    /\ targetValidation = <<4, 5>>
    /\ selectivity = R(-4)
    /\ mechanismBonus = <<6, 5>>

ScenarioA ==
    /\ mechanismBonus # None
    /\ phase = "Preclinical"
    /\ MechInputs = DefaultMechInputs

\* C3 as claimed: Scenario A (Preclinical, the neutral default inputs) yields
\* mechanismBonus = 1.0 and ptrs = 0.12.
C3_ScenarioA_AsClaimed ==
    ScenarioA => mechanismBonus = One /\ ptrs = Rat(12, 100)

\* C3 amended: in Scenario A the default logP 2.0 lies inside [1,3] and adds
\* 0.10, so mechanismBonus = 1.10 and ptrs = 0.12 * 1.10 = 0.132.
C3_ScenarioA_Amended ==
    ScenarioA => mechanismBonus = Rat(110, 100) /\ ptrs = Rat(132, 1000)

\* C3 witness: the page rendered with the defaults in phase Preclinical
C3_Witness == ScenarioA /\ ptrs # None /\ logP = R(2)

----------------------------------------------------------------------------
(* Claims about the cash-flow integrators, checked under SpecDcf *)

\* C4: for all inputs with loeYear <= launchYear, pvOwner returns 0 and
\* pvLicensor returns 0.
C4_ZeroHorizon ==
    i.loeYear <= i.launchYear =>
        /\ ownerPV # None => ownerPV = Zero
        /\ licensorPV # None => licensorPV = Zero

\* C4 witness: both integrators were called on an empty horizon with positive
\* peak sales, no tax and a royalty function, and both returned 0
C4_Witness ==
    /\ i.loeYear < i.launchYear
    /\ Gt(i.peakSales, Zero)
    /\ i.taxRate = Zero
    /\ i.cogs = Zero
    /\ i.royaltyPctAt.present
    /\ ownerPV = Zero
    /\ licensorPV = Zero

\* the ranges of the data model: fractions and discount rate in [0,1],
\* royaltyMin <= royaltyMax in [0,100]
InUnit(x) == Le(Zero, x) /\ Le(x, One)
InDataModelRange(in) ==
    /\ InUnit(in.taxRate) /\ InUnit(in.cogs) /\ InUnit(in.commercialSpend)
    /\ InUnit(in.workingCapital) /\ InUnit(in.discountRate)
    /\ Le(Zero, in.royaltyPctAt.min)
    /\ Le(in.royaltyPctAt.min, in.royaltyPctAt.max)
    /\ Le(in.royaltyPctAt.max, R(100))

\* raising peakSales to any larger value, all else fixed, does not lower the
\* owner PV that was returned
OwnerMonotone ==
    ownerPV # None =>
        \A p \in PeakSalesValues :
            Le(i.peakSales, p) => Le(ownerPV, pvOwner([i EXCEPT !.peakSales = p]))

LicensorMonotone ==
    licensorPV # None =>
        \A p \in PeakSalesValues :
            Le(i.peakSales, p) => Le(licensorPV, pvLicensor([i EXCEPT !.peakSales = p]))

\* C5 as claimed: with every other field anywhere in its data-model range,
\* peakSales1 <= peakSales2 implies pvOwner(peakSales1) <= pvOwner(peakSales2)
\* and pvLicensor(peakSales1) <= pvLicensor(peakSales2).
C5_Monotone_AsClaimed ==
    InDataModelRange(i) => OwnerMonotone /\ LicensorMonotone

\* C5 amended: pvLicensor is monotone in peakSales over the whole data-model
\* range; pvOwner is monotone when also cogs + commercialSpend +
\* workingCapital <= 1 (a non-negative net margin).
C5_Monotone_Amended ==
    InDataModelRange(i) =>
        /\ LicensorMonotone
        /\ Le(Add(Add(i.cogs, i.commercialSpend), i.workingCapital), One) => OwnerMonotone

\* C5 witness: both integrators returned a positive PV for peak sales 100 with
\* a positive net margin, and peak sales 500 gives a strictly larger owner PV
C5_Witness ==
    /\ ownerPV # None /\ licensorPV # None
    /\ InDataModelRange(i)
    /\ i.peakSales = R(100)
    /\ i.commercialSpend = <<1, 2>>
    /\ Gt(ownerPV, Zero) /\ Gt(licensorPV, Zero)
    /\ Lt(ownerPV, pvOwner([i EXCEPT !.peakSales = R(500)]))

\* the sum of the values of a function with a finite domain
RECURSIVE SumOf(_)
SumOf(f) ==
    IF DOMAIN f = {} THEN Zero
    ELSE LET y == CHOOSE z \in DOMAIN f : TRUE
         IN  Add(f[y], SumOf([z \in DOMAIN f \ {y} |-> f[z]]))

\* the years y with launchYear <= y < loeYear
Horizon(in) == {y \in in.launchYear..(in.loeYear - 1) : TRUE}

\* 1 / (1 + discountRate)^(y - currentYear)
DiscountFactor(in, y) == Div(One, Pow(Add(One, in.discountRate), y - in.currentYear))

\* salesAtYear(y) * (1 - cogs - commercialSpend - workingCapital) * (1 - taxRate)
OwnerCashFlow(in, y) ==
    Mul(salesAtYear(y, in.launchYear, in.loeYear, in.peakSales),
        Mul(Sub(One, Add(in.cogs, Add(in.commercialSpend, in.workingCapital))),
            Sub(One, in.taxRate)))

\* C11: pvOwner returns the sum, over the years y with launchYear <= y <
\* loeYear, of salesAtYear(y) * (1 - cogs - commercialSpend - workingCapital)
\* * (1 - taxRate) / (1 + discountRate)^(y - currentYear); with discountRate = 0
\* it is the undiscounted sum of those after-tax cash flows.
C11_OwnerPvIsDiscountedSum ==
    ownerPV # None =>
        /\ ownerPV = SumOf([y \in Horizon(i) |->
                                Mul(OwnerCashFlow(i, y), DiscountFactor(i, y))])
        /\ i.discountRate = Zero =>
               ownerPV = SumOf([y \in Horizon(i) |-> OwnerCashFlow(i, y)])

\* C11 witness: a four-year horizon that starts two years before the current
\* year, discounted at 50%, returned a positive owner PV
C11_Witness ==
    /\ ownerPV # None
    /\ i.currentYear = i.launchYear + 2
    /\ i.loeYear = i.launchYear + 4
    /\ i.discountRate = <<1, 2>>
    /\ i.taxRate = <<1, 4>>
    /\ i.commercialSpend = <<1, 2>>
    /\ Gt(ownerPV, Zero)

\* salesAtYear(y) * (royaltyPctAt(y) / 100) * (1 - taxRate)
LicensorCashFlow(in, y) ==
    Mul(salesAtYear(y, in.launchYear, in.loeYear, in.peakSales),
        Mul(Div(royaltyAtYear(y, in.launchYear, in.loeYear, in.royaltyPctAt.min,
                              in.royaltyPctAt.max, in.royaltyPctAt.ramp), R(100)),
            Sub(One, in.taxRate)))

\* C12: with a royalty function supplied, pvLicensor returns the sum, over the
\* years y with launchYear <= y < loeYear, of salesAtYear(y) *
\* (royaltyPctAt(y) / 100) * (1 - taxRate) / (1 + discountRate)^(y - currentYear),
\* and returns the same value for any cogs, commercialSpend and workingCapital.
C12_LicensorPvIsRoyaltySum ==
    (licensorPV # None /\ i.royaltyPctAt.present) =>
        /\ licensorPV = SumOf([y \in Horizon(i) |->
                                   Mul(LicensorCashFlow(i, y), DiscountFactor(i, y))])
        /\ \A c \in CogsValues, s \in CommercialSpendValues, w \in WorkingCapitalValues :
               pvLicensor([i EXCEPT !.cogs = c, !.commercialSpend = s,
                                    !.workingCapital = w]) = licensorPV

\* C12 witness: a ramped royalty over a six-year horizon returned a positive
\* licensor PV for inputs whose owner margin is negative
C12_Witness ==
    /\ licensorPV # None
    /\ i.royaltyPctAt = RoyaltyFn(R(5), R(12), 3)
    /\ i.loeYear = i.launchYear + 6
    /\ i.cogs = One /\ i.commercialSpend = <<1, 2>> /\ i.workingCapital = <<1, 2>>
    /\ i.discountRate = <<1, 2>>
    /\ Gt(licensorPV, Zero)

\* C13: when royaltyPctAt is absent, pvLicensor returns 0 for every other
\* input, a non-empty horizon and positive peak sales included.
C13_NoRoyaltyFnGivesZero ==
    (licensorPV # None /\ ~i.royaltyPctAt.present) => licensorPV = Zero

\* C13 witness: no royalty function, a six-year horizon, peak sales 500, no
\* tax, and the licensor PV returned is 0
C13_Witness ==
    /\ licensorPV # None
    /\ ~i.royaltyPctAt.present
    /\ i.loeYear = i.launchYear + 6
    /\ i.peakSales = R(500)
    /\ i.taxRate = Zero
    /\ licensorPV = Zero

\* Scenario B: launch 2030 (FirstYear), LOE 2031, peak sales 500 and every
\* rate 0
ScenarioB ==
    /\ i.launchYear = FirstYear /\ i.loeYear = FirstYear + 1
    /\ i.peakSales = R(500)
    /\ i.discountRate = Zero /\ i.taxRate = Zero
    /\ i.cogs = Zero /\ i.commercialSpend = Zero /\ i.workingCapital = Zero

\* C14: when loeYear = launchYear + 1 and discountRate >= 0, pvOwner returns 0,
\* because the only year of the horizon is the launch year, whose sales are 0;
\* in particular Scenario B gives ownerPV = 0.
C14_OneYearHorizonIsZero ==
    ownerPV # None =>
        /\ (i.loeYear = i.launchYear + 1 /\ Ge(i.discountRate, Zero)) => ownerPV = Zero
        /\ ScenarioB => ownerPV = Zero

\* C14 witness: Scenario B was integrated and the owner PV is 0
C14_Witness == ownerPV # None /\ ScenarioB /\ ownerPV = Zero

----------------------------------------------------------------------------
(* Claims about the curves, checked under SpecCurves *)

RoyaltyCalled == curveRet.fn = "royaltyAtYear"
SalesCalled == curveRet.fn = "salesAtYear"
InHorizon == curveArgs.launch <= curveRet.year /\ curveRet.year < curveArgs.loe

\* C6 as claimed: royaltyAtYear(launchYear + rampYears, ...) = max (read with
\* the data model's rampYears >= 0 and loeYear > launchYear), and = max for
\* every y >= launchYear + rampYears with y < loeYear.
C6_RampBoundary_AsClaimed ==
    (RoyaltyCalled /\ curveArgs.ramp >= 0 /\ curveArgs.launch < curveArgs.loe) =>
        /\ curveRet.year = curveArgs.launch + curveArgs.ramp => curveRet.val = curveArgs.max
        /\ (curveRet.year >= curveArgs.launch + curveArgs.ramp
              /\ curveRet.year < curveArgs.loe) => curveRet.val = curveArgs.max

\* C6 amended: for every year y of the horizon [launchYear, loeYear) with
\* y >= launchYear + rampYears, royaltyAtYear(y, ...) = max; at
\* y = launchYear + rampYears this is max when rampYears >= 0 and
\* launchYear + rampYears < loeYear, and 0 when launchYear + rampYears >= loeYear.
C6_RampBoundary_Amended ==
    RoyaltyCalled =>
        /\ (InHorizon /\ curveRet.year >= curveArgs.launch + curveArgs.ramp)
              => curveRet.val = curveArgs.max
        /\ (curveRet.year = curveArgs.launch + curveArgs.ramp /\ curveArgs.ramp >= 0
              /\ curveArgs.launch + curveArgs.ramp < curveArgs.loe)
              => curveRet.val = curveArgs.max
        /\ (curveRet.year = curveArgs.launch + curveArgs.ramp
              /\ curveArgs.launch + curveArgs.ramp >= curveArgs.loe)
              => curveRet.val = Zero

\* C6 witness: royaltyAtYear was called at launchYear + rampYears inside the
\* horizon, after a proper ramp with min < max, and returned max
C6_Witness ==
    /\ RoyaltyCalled /\ InHorizon
    /\ curveArgs.ramp = 3
    /\ curveRet.year = curveArgs.launch + curveArgs.ramp
    /\ Lt(curveArgs.min, curveArgs.max)
    /\ curveRet.val = curveArgs.max

\* C7: for every year y < launchYear or y >= loeYear, salesAtYear returns 0 and
\* royaltyAtYear returns 0.
C7_ZeroOutsideHorizon ==
    ((RoyaltyCalled \/ SalesCalled) /\ ~InHorizon) => curveRet.val = Zero

\* C7 witness: salesAtYear was called for the LOE year itself, after a
\* non-empty horizon with positive peak sales, and returned 0
C7_Witness ==
    /\ SalesCalled
    /\ curveRet.year = curveArgs.loe
    /\ curveArgs.launch < curveArgs.loe
    /\ Gt(curveArgs.peak, Zero)
    /\ curveRet.val = Zero

\* C8: for every year y in [launchYear, loeYear) with 0 <= y - launchYear <
\* rampYears, royaltyAtYear returns min + (max - min) * (y - launchYear) /
\* rampYears; with min = 5, max = 12, rampYears = 3 the value at launchYear + 1
\* is 5 + 7/3 = 22/3 and the value at launchYear is min.
C8_LinearRamp ==
    (RoyaltyCalled /\ InHorizon /\ curveRet.year - curveArgs.launch < curveArgs.ramp) =>
        /\ curveRet.val =
              Add(curveArgs.min,
                  Div(Mul(Sub(curveArgs.max, curveArgs.min),
                          R(curveRet.year - curveArgs.launch)),
                      R(curveArgs.ramp)))
        /\ curveRet.year = curveArgs.launch => curveRet.val = curveArgs.min
        /\ (curveArgs.min = R(5) /\ curveArgs.max = R(12) /\ curveArgs.ramp = 3
              /\ curveRet.year = curveArgs.launch + 1) => curveRet.val = <<22, 3>>

\* C8 witness: Scenario C, royaltyAtYear called one year after launch
C8_Witness ==
    /\ RoyaltyCalled /\ InHorizon
    /\ curveArgs.min = R(5) /\ curveArgs.max = R(12) /\ curveArgs.ramp = 3
    /\ curveRet.year = curveArgs.launch + 1
    /\ curveRet.val = <<22, 3>>

\* the sum of royaltyAtYear over the set of years ys
RECURSIVE SumRoyalty(_)
SumRoyalty(ys) ==
    IF ys = {} THEN Zero
    ELSE LET y == CHOOSE x \in ys : TRUE
         IN  Add(royaltyAtYear(y, curveArgs.launch, curveArgs.loe,
                               curveArgs.min, curveArgs.max, curveArgs.ramp),
                 SumRoyalty(ys \ {y}))

\* C9: averageRoyalty is the sum of royaltyAtYear over every integer year of
\* [launch, loe) divided by loe - launch when launch < loe, and 0 when
\* launch >= loe.
C9_AverageRoyalty ==
    curveRet.fn = "averageRoyalty" =>
        IF curveArgs.launch < curveArgs.loe
        THEN curveRet.val =
               Div(SumRoyalty(curveArgs.launch..(curveArgs.loe - 1)),
                   R(curveArgs.loe - curveArgs.launch))
        ELSE curveRet.val = Zero

\* C9 witness: averageRoyalty called over a horizon longer than the ramp with
\* min < max, returning a value strictly between min and max
C9_Witness ==
    /\ curveRet.fn = "averageRoyalty"
    /\ curveArgs.loe - curveArgs.launch > curveArgs.ramp
    /\ curveArgs.ramp >= 2
    /\ Lt(curveArgs.min, curveRet.val)
    /\ Lt(curveRet.val, curveArgs.max)

\* C10: for every year y in [launchYear, loeYear), salesAtYear returns
\* peakSales * (y - launchYear) / 4 when y - launchYear <= 4 and peakSales
\* when y - launchYear > 4: 0 in the launch year, peakSales at launchYear + 4
\* and in every later year, whatever the inputs.
C10_SalesRamp ==
    (SalesCalled /\ InHorizon) =>
        LET t == curveRet.year - curveArgs.launch
        IN  /\ t <= 4 => curveRet.val = Div(Mul(curveArgs.peak, R(t)), R(4))
            /\ t > 4 => curveRet.val = curveArgs.peak
            /\ t = 0 => curveRet.val = Zero
            /\ t >= 4 => curveRet.val = curveArgs.peak

\* C10 witness: salesAtYear called one year before the end of the ramp with
\* positive peak sales returned three quarters of the peak
C10_Witness ==
    /\ SalesCalled /\ InHorizon
    /\ curveRet.year = curveArgs.launch + 3
    /\ Gt(curveArgs.peak, Zero)
    /\ curveRet.val = Div(Mul(curveArgs.peak, R(3)), R(4))

----------------------------------------------------------------------------
(* Claims about the composed outputs, checked under SpecCompose *)

\* the PhaseTable of the valuation engine: probability and cost (M) of each
\* of the six phases, and (0, 0) for any other key
PhaseTable(ph) ==
    CASE ph = "Preclinical" -> [probability |-> <<3, 25>>, cost |-> R(200)]
      [] ph = "Phase I"     -> [probability |-> <<8, 25>>, cost |-> R(50)]
      [] ph = "Phase II"    -> [probability |-> <<7, 50>>, cost |-> R(100)]
      [] ph = "Phase III"   -> [probability |-> <<2, 5>>, cost |-> R(200)]
      [] ph = "NDA"         -> [probability |-> <<17, 20>>, cost |-> R(20)]
      [] ph = "Approved"    -> [probability |-> One, cost |-> Zero]
      [] OTHER              -> [probability |-> Zero, cost |-> Zero]

Rendered == rnpv # None

\* C15: for every phase and every mechanistic input, ptrs = baselineProbability
\* * mechanismBonus and 0 <= ptrs <= baselineProbability * 2.0, where
\* baselineProbability is the PhaseTable probability of the phase.
C15_PtrsIsProductWithinBounds ==
    Rendered =>
        LET baselineProbability == PhaseTable(phase).probability
        IN  /\ ptrs = Mul(baselineProbability, mechanismBonus)
            /\ Le(Zero, ptrs)
            /\ Le(ptrs, Mul(baselineProbability, R(2)))

\* C15 witness: an NDA asset with every adjustment at its best has bonus 1.75
\* and ptrs 0.85 * 1.75, above 1
C15_Witness ==
    /\ Rendered
    /\ phase = "NDA"
    /\ mechanismBonus = <<7, 4>>
    /\ ptrs = <<119, 80>>

\* the PV the role selects
RolePV == IF role = "OWNER" THEN ownerPV ELSE licensorPV

\* rnpv and devCostPV as the composition states them
RnpvComposed ==
    Rendered =>
        /\ devCostPV = Mul(PhaseTable(phase).cost, Sub(One, taxRate))
        /\ rnpv = Sub(Mul(RolePV, ptrs), devCostPV)

\* a step that switches the role leaves ownerPV, licensorPV, ptrs and
\* devCostPV as they were, and the new rnpv is the newly selected PV * ptrs -
\* devCostPV
RoleSwitchFrame ==
    (Rendered /\ role' # role) =>
        /\ ownerPV' = ownerPV /\ licensorPV' = licensorPV
        /\ ptrs' = ptrs /\ devCostPV' = devCostPV
        /\ rnpv' = Sub(Mul(RolePV', ptrs), devCostPV)

\* C16: rnpv = selectedPV * ptrs - devCostPV, where devCostPV = PhaseTable cost
\* of the phase * (1 - taxRate) and selectedPV is ownerPV when the role is
\* Owner and licensorPV when it is Licensor; switching the role changes rnpv
\* only through the selected PV and leaves ownerPV, licensorPV, ptrs and
\* devCostPV unchanged.
C16_RnpvComposition == []RnpvComposed /\ [][RoleSwitchFrame]_vars

\* C16 witness: the role was switched to Licensor on a page whose two PVs
\* differ, with positive ptrs and development cost
C16_Witness ==
    /\ Rendered
    /\ role = "LICENSOR"
    /\ ownerPV # licensorPV
    /\ Gt(licensorPV, Zero)
    /\ Gt(ptrs, Zero)
    /\ Gt(devCostPV, Zero)

\* C17: roi is 0 whenever devCostPV = 0 (phase Approved, unknown phase, or
\* taxRate = 1), whatever rnpv is; otherwise roi is (rnpv / devCostPV) * 100
\* rounded to the nearest integer.  The guard keeps the division away from a
\* zero devCostPV.
C17_RoiGuarded ==
    Rendered =>
        /\ (phase = "Approved" \/ phase \notin PhaseKeys \/ taxRate = One)
              => devCostPV = Zero
        /\ devCostPV = Zero => roi = 0
        /\ devCostPV # Zero =>
              LET x == Mul(Div(rnpv, devCostPV), R(100))
              IN  /\ roi \in Int
                  /\ Le(Sub(x, <<1, 2>>), R(roi))
                  /\ Le(R(roi), Add(x, <<1, 2>>))

\* C17 witness: an approved asset with a positive rnpv has devCostPV 0 and roi 0
C17_Witness ==
    /\ Rendered
    /\ phase = "Approved"
    /\ devCostPV = Zero
    /\ Gt(rnpv, Zero)
    /\ roi = 0

----------------------------------------------------------------------------
(* Claims about the page in use, checked under SpecPage *)

\* the outputs the page shows
ShownOutputs ==
    [mechanismBonus |-> mechanismBonus, ptrs |-> ptrs, devCostPV |-> devCostPV,
     ownerPV |-> ownerPV, licensorPV |-> licensorPV, rnpv |-> rnpv, roi |-> roi,
     averageRoyalty |-> avgRoyalty]

\* the outputs computed afresh from the inputs the page holds and currentYear,
\* and from nothing else
FreshOutputs ==
    LET bonus == MechanismBonusOf(MechInputs)
        p     == PtrsOf(phase, bonus)
        dev   == Mul(devCost(phase), Sub(One, taxRate))
        own   == pvOwner(OwnerDcfInputs)
        lic   == pvLicensor(LicensorDcfInputs)
        r     == Sub(Mul(IF role = "OWNER" THEN own ELSE lic, p), dev)
    IN  [mechanismBonus |-> bonus, ptrs |-> p, devCostPV |-> dev,
         ownerPV |-> own, licensorPV |-> lic, rnpv |-> r, roi |-> RoiOf(r, dev),
         averageRoyalty |-> averageRoyalty(launchYear, loeYear, royaltyMin,
                                           royaltyMax, royaltyRampYears)]

\* C19: determinism.  Whatever events the page handled before (earlier
\* renders and the values their memos hold, toasts, a share link, a trial
\* looked up), the outputs mechanismBonus, ptrs, devCostPV, ownerPV,
\* licensorPV, rnpv, roi and averageRoyalty it shows are the ones computed
\* from its present Inputs and currentYear alone; so two pages with
\* identical Inputs and currentYear show identical outputs.
C19_OutputsDependOnInputsOnly == Rendered => ShownOutputs = FreshOutputs

\* C19 witness: after a change of peak sales, a save and a trial lookup that
\* moved the phase, the page shows a toast and a share link
C19_Witness ==
    /\ Rendered
    /\ events = MaxEvents
    /\ peakSales = R(100)
    /\ phase = "Phase III"
    /\ shareLink = "link"
    /\ trialSponsor = "sponsor"
    /\ toastMsg # "null"

----------------------------------------------------------------------------
(* Claims about the LOE resolver, checked under SpecLoe *)

\* the dates of the records that are present (neither undefined nor empty)
PresentDates(recs) ==
    {d \in {recs[k].patentExpiry : k \in DOMAIN recs}
            \cup {recs[k].exclusivityExpiry : k \in DOMAIN recs} :
        d.kind \notin {"absent", "empty"}}

\* the calendar years of the present dates that are valid dates
ValidYears(recs) ==
    {d.year : d \in {e \in PresentDates(recs) : e.kind = "iso" /\ e.month \in 1..12}}

MaxOf(S) == CHOOSE m \in S : \A n \in S : n <= m

\* the records in another order
Reordered(recs) ==
    {[k \in DOMAIN recs |-> recs[p[k]]] :
        p \in {q \in [DOMAIN recs -> DOMAIN recs] : \A a, b \in DOMAIN recs : q[a] = q[b] => a = b}}

\* C20: computeLoeYearFromOrangeBook returns the maximum calendar year over all
\* present patentExpiry and exclusivityExpiry dates of all records; it returns
\* null when the list is empty, when no record has either date, or when no
\* present date parses to a valid year; and the result does not depend on the
\* order of the records.
C20_MaxYearOrNull_AsClaimed ==
    loeRet.called =>
        /\ ValidYears(orangeBook) = {} => loeRet.ret = NullYear
        /\ ValidYears(orangeBook) # {} => loeRet.ret = YearOf(MaxOf(ValidYears(orangeBook)))
        /\ \A recs \in Reordered(orangeBook) :
               computeLoeYearFromOrangeBook(recs) = loeRet.ret

----------------------------------------------------------------------------
(* Further claims about the mechanism bonus, checked under SpecMech *)

\* C25 as claimed: for all mechanistic inputs the unclamped sum 1.0 + deltas
\* lies in [0.35, 1.75], so mechanismBonus is in [0.5, 1.75] and never 2.0,
\* and mechanismBonus is 0.5 exactly when the unclamped sum is below 0.5.
C25_SumRange_AsClaimed ==
    mechanismBonus # None =>
        /\ 35 <= UnclampedBonus /\ UnclampedBonus <= 175
        /\ Le(<<1, 2>>, mechanismBonus) /\ Le(mechanismBonus, <<7, 4>>)
        /\ mechanismBonus # R(2)
        /\ mechanismBonus = <<1, 2>> <=> UnclampedBonus < 50

\* C25 amended: the unclamped sum lies in [0.35, 1.75], mechanismBonus is in
\* [0.5, 1.75] and never 2.0, and mechanismBonus is 0.5 exactly when the
\* unclamped sum is at most 0.5 (a sum of exactly 0.5 is returned unchanged).
C25_SumRange_Amended ==
    mechanismBonus # None =>
        /\ 35 <= UnclampedBonus /\ UnclampedBonus <= 175
        /\ Le(<<1, 2>>, mechanismBonus) /\ Le(mechanismBonus, <<7, 4>>)
        /\ mechanismBonus # R(2)
        /\ mechanismBonus = <<1, 2>> <=> UnclampedBonus <= 50

\* C25 witness: the penalties for potency, selectivity, molecular weight,
\* logP, bioavailability and novelty add up to an unclamped sum of exactly
\* 0.5, and the bonus is 0.5
C25_Witness ==
    /\ mechanismBonus = <<1, 2>>
    /\ UnclampedBonus = 50
    /\ halfLife = R(12)
    /\ targetValidation = <<1, 2>>

----------------------------------------------------------------------------
(* Further claims about the curves, checked under SpecCurves *)

\* C26: when rampYears <= 0, royaltyAtYear returns max for every year of
\* [launchYear, loeYear), the launch year included (the ramp division is not
\* reached); min is then returned for no year of the horizon unless min = max,
\* and averageRoyalty over a non-empty horizon equals max.
C26_NoRampIsPlateau ==
    curveArgs.ramp <= 0 =>
        /\ (RoyaltyCalled /\ InHorizon) =>
              /\ curveRet.val = curveArgs.max
              /\ curveRet.val = curveArgs.min => curveArgs.min = curveArgs.max
        /\ (curveRet.fn = "averageRoyalty" /\ curveArgs.launch < curveArgs.loe) =>
              curveRet.val = curveArgs.max

\* C26 witness: with rampYears = 0 and min < max, royaltyAtYear was called for
\* the launch year of a non-empty horizon and returned max
C26_Witness ==
    /\ RoyaltyCalled /\ InHorizon
    /\ curveArgs.ramp = 0
    /\ curveRet.year = curveArgs.launch
    /\ Lt(curveArgs.min, curveArgs.max)
    /\ curveRet.val = curveArgs.max

----------------------------------------------------------------------------
(* Claims about the years, the toast and the snapshots, checked under SpecPage *)

\* a step of handleLaunchYearChange or handleLoeYearChange: an event that
\* changes a year and calls no notify (Get LOE and Load Valuation notify)
YearEditStep ==
    /\ events' = events + 1
    /\ timers' = timers
    /\ launchYear' # launchYear \/ loeYear' # loeYear

\* the effect of handleLaunchYearChange(y) as the specification states it
LaunchYearEffect(y) ==
    /\ launchYear' = y
    /\ loeYear' = IF y >= loeYear THEN y + 1 ELSE loeYear

\* the effect of handleLoeYearChange(y) as the specification states it
LoeYearEffect(y) ==
    /\ loeYear' = y
    /\ launchYear' = IF y <= launchYear THEN y - 1 ELSE launchYear

\* C27: from any page state, loeYear <= launchYear included, one
\* handleLaunchYearChange(y) or handleLoeYearChange(y) leaves
\* loeYear > launchYear: the first sets launchYear = y, and loeYear = y + 1
\* only if y >= the previous loeYear; the second sets loeYear = y, and
\* launchYear = y - 1 only if y <= the previous launchYear.
C27_YearHandlersRestoreOrder ==
    [][YearEditStep =>
          /\ loeYear' > launchYear'
          /\ \E y \in YearEdits : LaunchYearEffect(y) \/ LoeYearEffect(y)]_vars

\* C27 witness: the launch year was set to 2035, Get LOE then set loeYear to
\* 2035 (loeYear = launchYear), and handleLoeYearChange(2033) was the third
\* event: it pushed the launch year down to 2032
C27_Witness ==
    /\ events = 3
    /\ toastMsg = "LOE set" /\ toastBy = 2 /\ timers = <<2>>
    /\ loeYear = FirstYear + 3 /\ launchYear = FirstYear + 2

\* C21: in every reachable state of the page, after any sequence of
\* launch-year edits, LOE-year edits, Get LOE lookups and Load Valuation
\* operations, loeYear > launchYear.
C21_LoeAfterLaunch_AsClaimed == loeYear > launchYear

\* C28: each notify keeps its own message until the timer started by that
\* same call fires: a timer that fires while the toast holds a message was
\* started by the notify that set this message.
C28_TimerClearsOwnMessage_AsClaimed ==
    [][(Len(timers') < Len(timers) /\ toastMsg # "null") =>
          Head(timers) = toastBy]_vars

\* a step of loadValuation that found the valuation
LoadStep == toastMsg' = "Valuation loaded." /\ toastBy' = events + 1

\* C29: loading a snapshot whose inputs are the record getInputs produced
\* restores every field, so that getInputs after the load equals the saved
\* inputs, and the recomputed mechanismBonus, ptrs and devCostPV equal those
\* of the saved state.
C29_LoadRestoresSavedState ==
    [][LoadStep =>
          \E k \in 1..Len(valuations) :
             /\ getInputs' = valuations[k].inputs
             /\ mechanismBonus' = valuations[k].outputs.mechanismBonus
             /\ ptrs' = valuations[k].outputs.ptrs
             /\ devCostPV' = valuations[k].outputs.devCostPV]_vars

\* C29 witness: a valuation was saved (event 1), an input was edited (event 2)
\* and the valuation was loaded (event 3): the page holds the saved inputs again
C29_Witness ==
    /\ events = 3
    /\ toastMsg = "Valuation loaded." /\ toastBy = 3 /\ timers = <<1, 3>>
    /\ Len(valuations) = 1
    /\ getInputs = valuations[1].inputs
    /\ mechanismBonus = valuations[1].outputs.mechanismBonus

\* a step of getTrialFromApi that got an answer
TrialStep == toastMsg' = "Trial fetched." /\ toastBy' = events + 1

\* the key the specification gives for a label, "undefined" for a label it
\* does not list
ClaimedPhase(label) ==
    CASE label \in {"Phase 1", "Phase I"} -> "Phase I"
      [] label \in {"Phase 2", "Phase II"} -> "Phase II"
      [] label \in {"Phase 3", "Phase III"} -> "Phase III"
      [] OTHER -> "undefined"

\* C22: normalizePhase maps 'Phase 1' and 'Phase I' to 'Phase I', 'Phase 2'
\* and 'Phase II' to 'Phase II', 'Phase 3' and 'Phase III' to 'Phase III',
\* every label to a key of the phase table or to no key, and after
\* getTrialFromApi the page's phase is one of the six keys.
C22_NormalizePhase_AsClaimed ==
    [][TrialStep =>
          /\ normalizePhase(trialData') \in PhaseKeys \cup {"undefined"}
          /\ ClaimedPhase(trialData') # "undefined" =>
                /\ normalizePhase(trialData') = ClaimedPhase(trialData')
                /\ phase' = ClaimedPhase(trialData')
          /\ phase' \in PhaseKeys]_vars

----------------------------------------------------------------------------
(* Claims about the in-memory store, checked under SpecStore *)

\* C23: after any sequence of createValuation calls, every valuation ever
\* created is still returned by getValuationByIdOrSlug given its id and given
\* its shareSlug, and by getValuationBySlug given its shareSlug: a later
\* create never makes an earlier valuation unreachable or replaces it.
C23_CreatedStaysReachable_AsClaimed ==
    \A n \in 1..Len(created) :
       /\ getValuationByIdOrSlug(created[n].id) = created[n]
       /\ getValuationByIdOrSlug(created[n].shareSlug) = created[n]
       /\ getValuationBySlug(created[n].shareSlug) = created[n]

----------------------------------------------------------------------------
(* Claims about the database-backed lookup route, checked under SpecDb *)

\* C24: the id-or-slug lookup route returns the stored valuation (200) when
\* queried with its shareSlug, for every slug generateSlug can produce,
\* digits-only slugs included, and 404 only when no valuation has that id or
\* slug.
C24_LookupBySlug_AsClaimed ==
    routeRet # NoRouteCall =>
       /\ \A k \in FindBySlug(routeRet.query) :
             routeRet.status = 200 /\ routeRet.body = dbValuations[k]
       /\ routeRet.status = 404 =>
             /\ FindBySlug(routeRet.query) = {}
             /\ \A k \in 1..Len(dbValuations) :
                   isNaN(Number(routeRet.query))
                   \/ dbValuations[k].id # Number(routeRet.query).y

====
